---- MODULE Spec2Model ----
(***************************************************************************)
(* Model of tools/benchmark_runner.py: loading Google Benchmark JSON       *)
(* results, merging the files of a directory, comparing two measurement    *)
(* tables and printing the comparison table.                               *)
(* The sessions of its commands (run, compare-json, compare-commits) with  *)
(* their git and build calls follow, and the release loop of               *)
(* conan/release_conan_packages.py.                                        *)
(*                                                                         *)
(* Strings are sequences of character codes (ASCII), so that Python's      *)
(* sorted() on names and on paths is modelled by what it compares.         *)
(* A Python dict is a sequence of <<key, value>> pairs with unique keys,   *)
(* in insertion order.  A float is a pair <<n, d>>: n/d in lowest terms    *)
(* with d > 0 when finite, <<1,0>> = +inf, <<-1,0>> = -inf, <<0,0>> = nan. *)
(* Finite arithmetic is exact (no rounding, no overflow); the sign of a    *)
(* zero is not kept (-0.0 == 0.0 in Python).                               *)
(***************************************************************************)
EXTENDS Integers, Sequences, FiniteSets, TLC

VARIABLES
    pc,          \* position of the running session in main() and its handlers
    args,        \* the parsed command line (argparse.Namespace)
    fs_files,    \* the regular files on disk: path -> JSON document
    fs_dirs,     \* the directories on disk
    opened,      \* the result files the loader has opened, in order
    calls,       \* the external commands run so far (run_cmd, check_output)
    phase,       \* "run", or the revision compare-commits is at: "baseline", "current";
                 \* in the release script the position in the selected build profiles
    project_root, \* the tree run_benchmarks works in (the worktree_dir of a revision)
    baseline,    \* the baseline measurement table (dict name -> float)
    current,     \* the current measurement table
    comparison,  \* the dict returned by compare_results
    stdout,      \* the table lines printed by print_comparison_table
    outcome      \* "running", "ok" (exit code 0) or the error that ended the session

vars == <<pc, args, fs_files, fs_dirs, opened, calls, phase, project_root,
          baseline, current, comparison, stdout, outcome>>

\* ------------------------------------------------------------------ bounds
\* Largest finite time value of an input measurement (values are 0..MaxTime).
MaxTime == 2
\* Largest number of files in an input results directory.
MaxFiles == 2
\* The longest list of entries in one result file of the loader specification.
MaxEntries == 2

\* ------------------------------------------------------------------ strings

RECURSIVE StrLess(_, _)
\* Python's str.__lt__: lexicographic by code point, a proper prefix is smaller.
StrLess(s, t) ==
    IF t = <<>> THEN FALSE
    ELSE IF s = <<>> THEN TRUE
    ELSE IF Head(s) # Head(t) THEN Head(s) < Head(t)
    ELSE StrLess(Tail(s), Tail(t))

MinStr(S) == CHOOSE s \in S : \A t \in S : t = s \/ StrLess(s, t)

RECURSIVE SortedStr(_)
\* sorted(S) for a set of strings: ascending sequence of its elements.
SortedStr(S) ==
    IF S = {} THEN <<>>
    ELSE LET m == MinStr(S) IN <<m>> \o SortedStr(S \ {m})

\* The benchmark names used as inputs: "a", "ab", "b".
NamePool == {<<97>>, <<97, 98>>, <<98>>}

\* ------------------------------------------------------------------ floats

Abs(n) == IF n < 0 THEN -n ELSE n

RECURSIVE GCD(_, _)
GCD(a, b) == IF b = 0 THEN a ELSE GCD(b, a % b)

\* The float n/d (d # 0) in the canonical representation.
Rat(n, d) ==
    LET g == GCD(Abs(n), Abs(d))
        s == IF d < 0 THEN -1 ELSE 1
    IN  <<(s * n) \div g, Abs(d) \div g>>

Fin(n) == <<n, 1>>
Zero == <<0, 1>>
One == <<1, 1>>
Hundred == <<100, 1>>
PosInf == <<1, 0>>
NegInf == <<-1, 0>>
NaN == <<0, 0>>
\* Python raises ZeroDivisionError for x / 0.0; the marker stands for the raise
\* and is absorbing in later arithmetic of the same expression.
ZeroDivisionError == <<0, -1>>

IsRaise(x) == x[2] < 0
IsNaN(x) == x = NaN
IsInf(x) == x[2] = 0 /\ x[1] # 0
IsFinite(x) == x[2] > 0
Sign(x) == IF x[1] > 0 THEN 1 ELSE IF x[1] < 0 THEN -1 ELSE 0
InfOfSign(s) == IF s > 0 THEN PosInf ELSE NegInf

\* x == y on floats: nan equals nothing, not even itself.
FloatEq(x, y) == ~IsNaN(x) /\ ~IsNaN(y) /\ x = y

FloatNeg(x) == <<-x[1], x[2]>>

FloatAdd(x, y) ==
    IF IsRaise(x) \/ IsRaise(y) THEN ZeroDivisionError
    ELSE IF IsNaN(x) \/ IsNaN(y) THEN NaN
    ELSE IF IsInf(x) /\ IsInf(y) THEN (IF x = y THEN x ELSE NaN)
    ELSE IF IsInf(x) THEN x
    ELSE IF IsInf(y) THEN y
    ELSE Rat(x[1] * y[2] + y[1] * x[2], x[2] * y[2])

FloatSub(x, y) == IF IsRaise(y) THEN ZeroDivisionError ELSE FloatAdd(x, FloatNeg(y))

FloatMul(x, y) ==
    IF IsRaise(x) \/ IsRaise(y) THEN ZeroDivisionError
    ELSE IF IsNaN(x) \/ IsNaN(y) THEN NaN
    ELSE IF IsInf(x) \/ IsInf(y)
         THEN (IF Sign(x) * Sign(y) = 0 THEN NaN ELSE InfOfSign(Sign(x) * Sign(y)))
    ELSE Rat(x[1] * y[1], x[2] * y[2])

\* Python's float true division x / y.
FloatDiv(x, y) ==
    IF IsRaise(x) \/ IsRaise(y) THEN ZeroDivisionError
    ELSE IF FloatEq(y, Zero) THEN ZeroDivisionError
    ELSE IF IsNaN(x) \/ IsNaN(y) THEN NaN
    ELSE IF IsInf(x) /\ IsInf(y) THEN NaN
    ELSE IF IsInf(x) THEN InfOfSign(Sign(x) * Sign(y))
    ELSE IF IsInf(y) THEN Zero
    ELSE Rat(x[1] * y[2], x[2] * y[1])

\* The float values an input document can give a time field: json.load reads
\* numbers of either sign, and the tokens Infinity, -Infinity and NaN, into
\* Python floats.
FloatInputs == {Fin(n) : n \in (-1)..MaxTime} \cup {PosInf, NegInf, NaN}

\* ------------------------------------------------------------------ dicts

Keys(d) == {d[i][1] : i \in 1..Len(d)}
KeySeq(d) == [i \in 1..Len(d) |-> d[i][1]]
Get(d, k) == d[CHOOSE i \in 1..Len(d) : d[i][1] = k][2]

\* Mutant: the item is appended even when the key is already there.
DictSetAppend(d, k, v) == Append(d, <<k, v>>)

\* d[k] = v: an existing key keeps its position, a new key is appended.
DictSet(d, k, v) ==
    IF k \in Keys(d)
    THEN [i \in 1..Len(d) |-> IF d[i][1] = k THEN <<k, v>> ELSE d[i]]
    ELSE Append(d, <<k, v>>)

RECURSIVE DictUpdate(_, _)
\* d.update(e): e's items are set in e's order.
DictUpdate(d, e) ==
    IF e = <<>> THEN d
    ELSE DictUpdate(DictSet(d, Head(e)[1], Head(e)[2]), Tail(e))

\* ------------------------------------------------------------------ inputs

TimeKeys == {"real_time", "cpu_time"}

DistinctKeys(d) == \A i, j \in 1..Len(d) : d[i][1] = d[j][1] => i = j

\* Every dict with keys among `names` and values among `values`, in every
\* insertion order.
DictsOver(names, values) ==
    UNION {{d \in [1..k -> names \X values] : DistinctKeys(d)} : k \in 0..Cardinality(names)}

\* Input tables for the comparator.  OrderTables vary the names and the insertion
\* order (three names, two ordinary times); ValueTables vary the values (two
\* names, every input float: zero, finite of either sign, infinite, nan).
OrderTables == DictsOver(NamePool, {Fin(1), Fin(2)})
ValueTables == DictsOver({<<97>>, <<98>>}, FloatInputs)
TablePairs == (OrderTables \X OrderTables) \cup (ValueTables \X ValueTables)

\* ------------------------------------------------------------------ paths and files

\* A path is the sequence of its components.  PurePath.__lt__ compares the
\* component lists, each component as a string.
RECURSIVE PathLess(_, _)
PathLess(p, q) ==
    IF q = <<>> THEN FALSE
    ELSE IF p = <<>> THEN TRUE
    ELSE IF Head(p) # Head(q) THEN StrLess(Head(p), Head(q))
    ELSE PathLess(Tail(p), Tail(q))

MinPath(S) == CHOOSE p \in S : \A q \in S : q = p \/ PathLess(p, q)

RECURSIVE SortedPaths(_)
\* sorted(S) for a set of paths.
SortedPaths(S) ==
    IF S = {} THEN <<>>
    ELSE LET m == MinPath(S) IN <<m>> \o SortedPaths(S \ {m})

\* "_bench.json"
BENCH_SUFFIX == <<95, 98, 101, 110, 99, 104, 46, 106, 115, 111, 110>>

EndsWith(s, suffix) ==
    /\ Len(s) >= Len(suffix)
    /\ SubSeq(s, Len(s) - Len(suffix) + 1, Len(s)) = suffix

IsUnder(p, directory) ==
    /\ Len(p) > Len(directory)
    /\ SubSeq(p, 1, Len(directory)) = directory

\* Mutant: glob instead of rglob, only the files directly in the directory.
RGlobTopLevelOnly(directory) ==
    {p \in DOMAIN fs_files :
        /\ Len(p) = Len(directory) + 1
        /\ SubSeq(p, 1, Len(directory)) = directory
        /\ EndsWith(p[Len(p)], BENCH_SUFFIX)}

\* directory.rglob("*_bench.json"): the files below the directory, at any depth,
\* whose name ends in _bench.json.
RGlob(directory) ==
    {p \in DOMAIN fs_files : IsUnder(p, directory) /\ EndsWith(p[Len(p)], BENCH_SUFFIX)}

\* ------------------------------------------------------------------ JSON documents

\* A document is what json.load makes of the file: root "invalid" (not JSON),
\* "other" (a list, a number, ...) or "dict" with the values of its "benchmark"
\* and "benchmarks" keys.  A collection is a list of entries or something else;
\* an entry is a dict with optional "name", "real_time" and "cpu_time", or not a
\* dict at all.
Field(present, kind, value) == [present |-> present, kind |-> kind, value |-> value]
NoField == Field(FALSE, "none", <<>>)
Name(s) == Field(TRUE, "str", s)
Time(x) == Field(TRUE, "number", x)
NotANumber == Field(TRUE, "other", <<>>)

Entry(name, real_time, cpu_time) ==
    [isdict |-> TRUE, name |-> name, real_time |-> real_time, cpu_time |-> cpu_time]
NotAnEntry == [isdict |-> FALSE, name |-> NoField, real_time |-> NoField, cpu_time |-> NoField]

Coll(present, kind, items) == [present |-> present, kind |-> kind, items |-> items]
NoColl == Coll(FALSE, "list", <<>>)
ListOf(items) == Coll(TRUE, "list", items)
NotAList == Coll(TRUE, "other", <<>>)

Doc(root, benchmark, benchmarks) ==
    [root |-> root, benchmark |-> benchmark, benchmarks |-> benchmarks]
InvalidDoc == Doc("invalid", NoColl, NoColl)
NonDictDoc == Doc("other", NoColl, NoColl)

\* The names "a", "ab", "b".
A == <<97>>
AB == <<97, 98>>
B == <<98>>

\* Result documents used as inputs: {} without a recognised key, an empty list,
\* lists that define and redefine names under either key, and a list whose
\* entries lack the name or one of the time fields.
NoKeyDoc == Doc("dict", NoColl, NoColl)
EmptyListDoc == Doc("dict", NoColl, ListOf(<<>>))
DocA1 == Doc("dict", NoColl, ListOf(<<Entry(Name(A), Time(Fin(1)), Time(Fin(2)))>>))
DocA2B1 ==
    Doc("dict", NoColl, ListOf(<<Entry(Name(A), Time(Fin(2)), Time(Fin(1))),
                                 Entry(Name(B), Time(Fin(1)), NoField)>>))
DocB2 == Doc("dict", ListOf(<<Entry(Name(B), Time(Fin(2)), Time(Fin(2)))>>), NoColl)
\* Times of either sign: against DocA2B1 the speedups are -1 and 1.
DocANeg2B1 ==
    Doc("dict", NoColl, ListOf(<<Entry(Name(A), Time(Fin(-2)), Time(Fin(2))),
                                 Entry(Name(B), Time(Fin(1)), Time(Fin(1)))>>))
DocSkips ==
    Doc("dict", NoColl, ListOf(<<Entry(NoField, Time(Fin(1)), Time(Fin(1))),
                                 Entry(Name(<<>>), Time(Fin(1)), Time(Fin(1))),
                                 Entry(Name(AB), NoField, Time(Fin(1)))>>))

Failed(status) == [status |-> status, table |-> <<>>]
Loaded(table) == [status |-> "ok", table |-> table]

\* Mutant: the time is always taken from real_time.
TimeFieldRealOnly(entry, tk) == entry.real_time

TimeField(entry, tk) == IF tk = "real_time" THEN entry.real_time ELSE entry.cpu_time

RECURSIVE LoadEntries(_, _, _)
\* The loop over the entries: result[name] = float(entry[time_key]).
LoadEntries(items, tk, result) ==
    IF items = <<>> THEN Loaded(result)
    ELSE LET entry == Head(items)
             t == TimeField(entry, tk)
         IN  IF ~entry.isdict THEN Failed("AttributeError")
             ELSE IF ~entry.name.present \/ entry.name.value = <<>>
                  THEN LoadEntries(Tail(items), tk, result)
             ELSE IF ~t.present THEN LoadEntries(Tail(items), tk, result)
             ELSE IF t.kind # "number" THEN Failed("ValueError")
             ELSE LoadEntries(Tail(items), tk, DictSet(result, entry.name.value, t.value))

\* Mutant: a root that is not a mapping is an error of the file.
LoadDocStrict(data, tk) ==
    IF data.root = "invalid" THEN Failed("JSONDecodeError")
    ELSE IF data.root # "dict" THEN Failed("StructuralMismatch")
    ELSE IF data.benchmark.present
         THEN (IF data.benchmark.kind # "list" THEN Failed("TypeError")
               ELSE LoadEntries(data.benchmark.items, tk, <<>>))
    ELSE IF data.benchmarks.present
         THEN (IF data.benchmarks.kind # "list" THEN Failed("TypeError")
               ELSE LoadEntries(data.benchmarks.items, tk, <<>>))
    ELSE Loaded(<<>>)

\* Mutant: "benchmarks" is looked up before "benchmark".
LoadDocPluralFirst(data, tk) ==
    IF data.root = "invalid" THEN Failed("JSONDecodeError")
    ELSE IF data.root # "dict" THEN Loaded(<<>>)
    ELSE IF data.benchmarks.present
         THEN (IF data.benchmarks.kind # "list" THEN Failed("TypeError")
               ELSE LoadEntries(data.benchmarks.items, tk, <<>>))
    ELSE IF data.benchmark.present
         THEN (IF data.benchmark.kind # "list" THEN Failed("TypeError")
               ELSE LoadEntries(data.benchmark.items, tk, <<>>))
    ELSE Loaded(<<>>)

\* The body of load_benchmarks_from_file once the file is open.
LoadDoc(data, tk) ==
    IF data.root = "invalid" THEN Failed("JSONDecodeError")
    ELSE IF data.root # "dict" THEN Loaded(<<>>)
    ELSE IF data.benchmark.present
         THEN (IF data.benchmark.kind # "list" THEN Failed("TypeError")
               ELSE LoadEntries(data.benchmark.items, tk, <<>>))
    ELSE IF data.benchmarks.present
         THEN (IF data.benchmarks.kind # "list" THEN Failed("TypeError")
               ELSE LoadEntries(data.benchmarks.items, tk, <<>>))
    ELSE Loaded(<<>>)

\* load_benchmarks_from_file(path, time_key): the table, or the exception raised.
LoadBenchmarksFromFile(path, tk) ==
    IF path \in fs_dirs THEN Failed("IsADirectoryError")
    ELSE IF path \notin DOMAIN fs_files THEN Failed("FileNotFoundError")
    ELSE LoadDoc(fs_files[path], tk)

\* ------------------------------------------------------------------ load_benchmarks_from_dir

Aggregated(status, table, files) == [status |-> status, table |-> table, opened |-> files]

RECURSIVE MergeFiles(_, _, _, _)
\* The loop over json_paths: merged.update(load_benchmarks_from_file(p)).
MergeFiles(json_paths, tk, merged, files) ==
    IF json_paths = <<>> THEN Aggregated("ok", merged, files)
    ELSE LET p == Head(json_paths)
             r == LoadBenchmarksFromFile(p, tk)
         IN  IF r.status # "ok" THEN Aggregated(r.status, <<>>, Append(files, p))
             ELSE MergeFiles(Tail(json_paths), tk, DictUpdate(merged, r.table), Append(files, p))

\* Mutant: the paths are taken in descending order.
JsonPathsDescending(directory) ==
    LET asc == SortedPaths(RGlob(directory))
    IN  [i \in 1..Len(asc) |-> asc[Len(asc) + 1 - i]]

JsonPaths(directory) == SortedPaths(RGlob(directory))

\* Mutant: the check for an empty merged table is dropped.
LoadBenchmarksFromDirUnchecked(directory, tk) ==
    IF directory \notin fs_dirs THEN Aggregated("NotADirectory", <<>>, <<>>)
    ELSE LET json_paths == SortedPaths(RGlob(directory))
             m == MergeFiles(json_paths, tk, <<>>, <<>>)
         IN  IF json_paths = <<>> THEN Aggregated("NoMatchingFiles", <<>>, <<>>)
             ELSE m

\* load_benchmarks_from_dir(directory, time_key): the merged table, the SystemExit
\* or the exception of a file, and the files opened on the way.
LoadBenchmarksFromDir(directory, tk) ==
    IF directory \notin fs_dirs THEN Aggregated("NotADirectory", <<>>, <<>>)
    ELSE LET json_paths == JsonPaths(directory)
             m == MergeFiles(json_paths, tk, <<>>, <<>>)
         IN  IF json_paths = <<>> THEN Aggregated("NoMatchingFiles", <<>>, <<>>)
             ELSE IF m.status # "ok" THEN m
             ELSE IF m.table = <<>> THEN Aggregated("EmptyResultSet", <<>>, m.opened)
             ELSE m

\* ------------------------------------------------------------------ command line

\* baseline and current hold the two paths of compare-json, or the two commits
\* of compare-commits.
CompareJsonArgs(tk, base_path, curr_path) ==
    [command |-> "compare-json", time_key |-> tk, baseline |-> base_path, current |-> curr_path]
CompareCommitsArgs(tk, baseline_commit, current_commit) ==
    [command |-> "compare-commits", time_key |-> tk,
     baseline |-> baseline_commit, current |-> current_commit]
RunArgs == [command |-> "run", time_key |-> "real_time", baseline |-> <<>>, current |-> <<>>]

\* ------------------------------------------------------------------ compare_results

\* Mutant: the zero guard on the divisor is dropped.
SpeedupOfUnguarded(base_t, cur_t) == FloatDiv(base_t, cur_t)

SpeedupOf(base_t, cur_t) ==
    IF FloatEq(cur_t, Zero) THEN PosInf ELSE FloatDiv(base_t, cur_t)

\* Mutant: the change is taken relative to the current value.
PercentOfCurrent(base_t, cur_t) ==
    IF FloatEq(base_t, Zero) THEN PosInf
    ELSE FloatMul(FloatDiv(FloatSub(cur_t, base_t), cur_t), Hundred)

PercentOf(base_t, cur_t) ==
    IF FloatEq(base_t, Zero) THEN PosInf
    ELSE FloatMul(FloatDiv(FloatSub(cur_t, base_t), base_t), Hundred)

\* Mutant: the two times are stored in the wrong order.
RowOfSwapped(b, c, name) ==
    LET base_t == Get(b, name)
        cur_t == Get(c, name)
    IN  <<cur_t, base_t, SpeedupOf(base_t, cur_t), PercentOf(base_t, cur_t)>>

RowOf(b, c, name) ==
    LET base_t == Get(b, name)
        cur_t == Get(c, name)
    IN  <<base_t, cur_t, SpeedupOf(base_t, cur_t), PercentOf(base_t, cur_t)>>

RowRaises(row) == IsRaise(row[3]) \/ IsRaise(row[4])

\* Mutant: sorted() is dropped, the names come in the baseline's insertion order.
CommonNamesUnsorted(b, c) == SelectSeq(KeySeq(b), LAMBDA k : k \in Keys(c))

CommonNames(b, c) == SortedStr(Keys(b) \cap Keys(c))

RECURSIVE CompareRows(_, _, _, _)
\* The loop over common: result[name] = (base_t, cur_t, speedup, percent).
CompareRows(names, b, c, result) ==
    IF names = <<>> THEN result
    ELSE CompareRows(Tail(names), b, c, DictSet(result, Head(names), RowOf(b, c, Head(names))))

\* compare_results without its `if not common: raise SystemExit`.
CompareResultsUnchecked(b, c) ==
    LET result == CompareRows(CommonNames(b, c), b, c, <<>>)
    IN  IF \E i \in 1..Len(result) : RowRaises(result[i][2])
        THEN [status |-> "ZeroDivisionError", result |-> <<>>]
        ELSE [status |-> "ok", result |-> result]

\* compare_results(baseline, current): the SystemExit, the uncaught exception or
\* the returned dict.
CompareResults(b, c) ==
    LET common == CommonNames(b, c)
        result == CompareRows(common, b, c, <<>>)
    IN  IF common = <<>> THEN [status |-> "NoCommonBenchmarks", result |-> <<>>]
        ELSE IF \E i \in 1..Len(result) : RowRaises(result[i][2])
             THEN [status |-> "ZeroDivisionError", result |-> <<>>]
        ELSE [status |-> "ok", result |-> result]

\* ------------------------------------------------------------------ print_comparison_table

Pow10(k) == IF k = 2 THEN 100 ELSE 1000

\* round(n/d) to the nearest integer, ties to even (d > 0).
RoundHalfEven(n, d) ==
    LET q == n \div d
        r == n - q * d
    IN  IF 2 * r < d THEN q
        ELSE IF 2 * r > d THEN q + 1
        ELSE IF q % 2 = 0 THEN q ELSE q + 1

\* A printed cell, as it reads after alignment: the text "inf", "-inf", "nan", ...
\* or a number with `digits` decimals, kept as the integer number * 10^digits.
TextCell(t) == [text |-> t, digits |-> 0, scaled |-> 0]
NumCell(x, digits) ==
    [text |-> "num", digits |-> digits, scaled |-> RoundHalfEven(x[1] * Pow10(digits), x[2])]

\* f"{x:.<digits>f}", and f"{x:+.<digits>f}" when plus.
FormatFixed(x, digits, plus) ==
    IF IsNaN(x) THEN TextCell(IF plus THEN "+nan" ELSE "nan")
    ELSE IF x = PosInf THEN TextCell(IF plus THEN "+inf" ELSE "inf")
    ELSE IF x = NegInf THEN TextCell("-inf")
    ELSE NumCell(x, digits)

\* Mutant: the percent is always formatted, never replaced by the marker.
PercentStrFormatted(percent) == FormatFixed(percent, 2, TRUE)

PercentStr(percent) ==
    IF FloatEq(percent, PosInf) THEN TextCell("inf") ELSE FormatFixed(percent, 2, TRUE)

SpeedupStr(speedup) ==
    IF FloatEq(speedup, PosInf) THEN TextCell("inf") ELSE FormatFixed(speedup, 3, FALSE)

EmptyCell == TextCell("")

Line(kind, name, cells) == [kind |-> kind, name |-> name, cells |-> cells]

RowLine(name, row) ==
    Line("row", name,
         <<FormatFixed(row[1], 3, FALSE), FormatFixed(row[2], 3, FALSE),
           SpeedupStr(row[3]), PercentStr(row[4])>>)

\* speedups.append(speedup if speedup != float("inf") else 0.0), per row in dict order.
Speedups(cmp) ==
    [i \in 1..Len(cmp) |->
        IF ~FloatEq(cmp[i][2][3], PosInf) THEN cmp[i][2][3] ELSE Zero]

\* s not in (0.0, float("inf")): a computed nan is equal to neither.
KeptInAverage(s) == ~(FloatEq(s, Zero) \/ FloatEq(s, PosInf))

\* finite = [s for s in speedups if s not in (0.0, float("inf"))]
FiniteSpeedups(speedups) == SelectSeq(speedups, KeptInAverage)

RECURSIVE FloatSum(_)
FloatSum(xs) == IF xs = <<>> THEN Zero ELSE FloatAdd(Head(xs), FloatSum(Tail(xs)))

AvgSpeedup(finite) == FloatDiv(FloatSum(finite), Fin(Len(finite)))

\* avg_percent = (1.0 / avg_speedup - 1.0) * -100.0
AvgPercent(avg_speedup) ==
    FloatMul(FloatSub(FloatDiv(One, avg_speedup), One), Fin(-100))

\* What print_cmp_table writes: the lines, and whether it returned ("ok")
\* or raised while computing the average line.
PrintComparisonTable(cmp, tk) ==
    LET head == <<Line("header", <<>>, <<>>)>>
        rows == [i \in 1..Len(cmp) |-> RowLine(cmp[i][1], cmp[i][2])]
        speedups == Speedups(cmp)
        finite == FiniteSpeedups(speedups)
        avg_speedup == AvgSpeedup(finite)
        avg_percent == AvgPercent(avg_speedup)
        foot == <<Line("footer", <<>>, <<>>)>>
    IN  IF speedups # <<>> /\ finite # <<>>
        THEN IF IsRaise(avg_speedup) \/ IsRaise(avg_percent)
             THEN [status |-> "ZeroDivisionError", lines |-> head \o rows]
             ELSE [status |-> "ok",
                   lines |-> head \o rows
                             \o <<Line("average", <<>>,
                                       <<EmptyCell, EmptyCell,
                                         FormatFixed(avg_speedup, 3, FALSE),
                                         FormatFixed(avg_percent, 2, FALSE)>>)>>
                             \o foot]
        ELSE [status |-> "ok", lines |-> head \o rows \o foot]

\* ------------------------------------------------------------------ handle_compare_json

\* Mutant: an empty table of a single file is EmptyResultSet as well.
LoadLocationChecked(path, tk) ==
    IF path \in fs_dirs THEN LoadBenchmarksFromDir(path, tk)
    ELSE LET r == LoadBenchmarksFromFile(path, tk)
         IN  IF r = Loaded(<<>>) THEN Aggregated("EmptyResultSet", <<>>, <<path>>)
             ELSE Aggregated(r.status, r.table, <<path>>)

\* The is_dir() branch of handle_compare_json for one location.
LoadLocation(path, tk) ==
    IF path \in fs_dirs THEN LoadBenchmarksFromDir(path, tk)
    ELSE LET r == LoadBenchmarksFromFile(path, tk)
         IN  Aggregated(r.status, r.table, <<path>>)

\* baseline = load_benchmarks_from_dir/file(base_path)
LoadBaseline ==
    /\ pc = "load_baseline"
    /\ LET r == LoadLocation(args.baseline, args.time_key)
       IN  /\ opened' = opened \o r.opened
           /\ IF r.status = "ok"
              THEN baseline' = r.table /\ pc' = "load_current" /\ outcome' = outcome
              ELSE baseline' = baseline /\ pc' = "done" /\ outcome' = r.status
    /\ UNCHANGED <<args, fs_files, fs_dirs, calls, phase, project_root, current, comparison, stdout>>

\* current = load_benchmarks_from_dir/file(curr_path)
LoadCurrent ==
    /\ pc = "load_current"
    /\ LET r == LoadLocation(args.current, args.time_key)
       IN  /\ opened' = opened \o r.opened
           /\ IF r.status = "ok"
              THEN current' = r.table /\ pc' = "compare" /\ outcome' = outcome
              ELSE current' = current /\ pc' = "done" /\ outcome' = r.status
    /\ UNCHANGED <<args, fs_files, fs_dirs, calls, phase, project_root, baseline, comparison, stdout>>

\* ------------------------------------------------------------------ session tail

\* comparison = compare_results(baseline, current)
Compare ==
    /\ pc = "compare"
    /\ LET r == CompareResults(baseline, current)
       IN  IF r.status = "ok"
           THEN /\ comparison' = r.result
                /\ pc' = "print"
                /\ outcome' = outcome
           ELSE /\ comparison' = comparison
                /\ pc' = "done"
                /\ outcome' = r.status
    /\ UNCHANGED <<args, fs_files, fs_dirs, calls, phase, project_root, opened, baseline, current, stdout>>

\* print_comparison_table(comparison, time_key=time_key); the handler and main return.
PrintTable ==
    /\ pc = "print"
    /\ LET r == PrintComparisonTable(comparison, args.time_key)
       IN  /\ stdout' = stdout \o r.lines
           /\ outcome' = r.status
    /\ pc' = "done"
    /\ UNCHANGED <<args, fs_files, fs_dirs, calls, phase, project_root, opened, baseline, current, comparison>>

\* ------------------------------------------------------------------ git and the build tools

\* The repository the tool is started in: "repo".
RepoRoot == << <<114, 101, 112, 111>> >>
\* Path("build/benchmark")
BUILD_SUBDIR == << <<98, 117, 105, 108, 100>>, <<98, 101, 110, 99, 104, 109, 97, 114, 107>> >>
\* "benchmark_worktrees"
BENCH_WORKTREES_DIR_NAME ==
    <<98, 101, 110, 99, 104, 109, 97, 114, 107, 95, 119, 111, 114, 107, 116, 114, 101, 101, 115>>
\* "conan" / "conan_install.py"
ConanInstallPath ==
    << <<99, 111, 110, 97, 110>>,
       <<99, 111, 110, 97, 110, 95, 105, 110, 115, 116, 97, 108, 108, 46, 112, 121>> >>

\* The refs given on the command line: "main", "v1", "dev", "old", "bogus".
RefMain == <<109, 97, 105, 110>>
RefV1 == <<118, 49>>
RefDev == <<100, 101, 118>>
RefOld == <<111, 108, 100>>
RefBogus == <<98, 111, 103, 117, 115>>
Refs == {RefMain, RefV1, RefDev, RefOld, RefBogus}

\* Mutant: a ref unknown to git is taken as its own short id.
ShortOfRefVerbatim(ref) ==
    IF ref \in {RefMain, RefV1} THEN <<97, 49>>
    ELSE IF ref = RefDev THEN <<98, 50>>
    ELSE IF ref = RefOld THEN <<99, 51>>
    ELSE ref

\* What `git rev-parse --short <ref>` prints in this repository: "main" and "v1"
\* name the commit "a1", "dev" names "b2", "old" names "c3"; "bogus" is unknown
\* to git (the empty answer stands for its non-zero exit).
ShortOfRef(ref) ==
    IF ref \in {RefMain, RefV1} THEN <<97, 49>>
    ELSE IF ref = RefDev THEN <<98, 50>>
    ELSE IF ref = RefOld THEN <<99, 51>>
    ELSE <<>>

\* The commit "c3" predates conan/conan_install.py; the others contain it.
CheckoutHasConanInstall(short) == short # <<99, 51>>

\* A file that is not a result document (a script).
ScriptFile == InvalidDoc

\* Mutant: writing replaces everything that was on disk.
WriteFilesOnly(files, new) == new

\* files with the files of `new` written (created or replaced).
WriteFiles(files, new) ==
    [p \in DOMAIN files \cup DOMAIN new |-> IF p \in DOMAIN new THEN new[p] ELSE files[p]]

\* Every proper and improper prefix directory of root / rel below root.
DirsDownTo(root, rel) == {root \o SubSeq(rel, 1, k) : k \in 1..Len(rel)}

Call(cmd, cwd, arg) == [cmd |-> cmd, cwd |-> cwd, arg |-> arg]

\* What the run-benchmark target may leave in <tree>/build/benchmark: nothing,
\* or one result file.
Deposits ==
    { <<>> }
    \cup {[f \in {<<97>> \o BENCH_SUFFIX} |-> d] : d \in {DocA1, DocA2B1, EmptyListDoc}}
    \cup {[f \in {<<98>> \o BENCH_SUFFIX} |-> DocB2]}

\* The session ends with the given error (SystemExit or an uncaught exception).
Abort(status) == pc' = "done" /\ outcome' = status

\* ------------------------------------------------------------------ main

\* main(): dispatch on args.command.
Main ==
    /\ pc = "main"
    /\ IF args.command = "compare-json" THEN pc' = "load_baseline" /\ phase' = phase
       ELSE IF args.command = "compare-commits"
            THEN pc' = "ensure_repo_root" /\ phase' = "baseline"
       ELSE pc' = "ensure_repo_root" /\ phase' = "run"
    /\ UNCHANGED <<args, fs_files, fs_dirs, opened, calls, project_root,
                   baseline, current, comparison, stdout, outcome>>

\* ensure_repo_root(): git rev-parse --show-toplevel, which may fail.
EnsureRepoRoot ==
    /\ pc = "ensure_repo_root"
    /\ calls' = Append(calls, Call("git rev-parse --show-toplevel", <<>>, <<>>))
    /\ \/ /\ pc' = IF phase = "run" THEN "conan_check" ELSE "short_ref"
          /\ project_root' = IF phase = "run" THEN RepoRoot ELSE project_root
          /\ outcome' = outcome
       \/ /\ Abort("CalledProcessError")
          /\ project_root' = project_root
    /\ UNCHANGED <<args, fs_files, fs_dirs, opened, phase, baseline, current, comparison, stdout>>

\* ------------------------------------------------------------------ run_benchmarks_for_commit

\* Mutant: the current commit is processed first.
CommitOfPhaseSwapped == IF phase = "baseline" THEN args.current ELSE args.baseline

CommitOfPhase == IF phase = "baseline" THEN args.baseline ELSE args.current

WorktreesRoot == RepoRoot \o BUILD_SUBDIR \o <<BENCH_WORKTREES_DIR_NAME>>

\* Mutant: the worktree directory is named by the ref, not by its short id.
ShortRefKeyedByRef ==
    /\ pc = "short_ref"
    /\ calls' = Append(calls, Call("git rev-parse --short", <<>>, CommitOfPhase))
    /\ IF ShortOfRef(CommitOfPhase) = <<>>
       THEN Abort("CalledProcessError") /\ project_root' = project_root
       ELSE /\ pc' = "check_worktree"
            /\ project_root' = WorktreesRoot \o <<CommitOfPhase>>
            /\ outcome' = outcome
    /\ UNCHANGED <<args, fs_files, fs_dirs, opened, phase, baseline, current, comparison, stdout>>

\* short = short_ref(ref); worktree_dir = worktrees_root / short
ShortRef ==
    /\ pc = "short_ref"
    /\ calls' = Append(calls, Call("git rev-parse --short", <<>>, CommitOfPhase))
    /\ IF ShortOfRef(CommitOfPhase) = <<>>
       THEN Abort("CalledProcessError") /\ project_root' = project_root
       ELSE /\ pc' = "check_worktree"
            /\ project_root' = WorktreesRoot \o <<ShortOfRef(CommitOfPhase)>>
            /\ outcome' = outcome
    /\ UNCHANGED <<args, fs_files, fs_dirs, opened, phase, baseline, current, comparison, stdout>>

\* Mutant: the directory is never found.
ExistsNever(path) == FALSE

Exists(path) == path \in fs_dirs \/ path \in DOMAIN fs_files

\* Mutant: an existing worktree is taken as already built and run.
CheckWorktreeSkippingBuild ==
    /\ pc = "check_worktree"
    /\ fs_dirs' = fs_dirs \cup DirsDownTo(RepoRoot, BUILD_SUBDIR \o <<BENCH_WORKTREES_DIR_NAME>>)
    /\ pc' = IF ~Exists(project_root) THEN "add_worktree" ELSE "load_results"
    /\ UNCHANGED <<args, fs_files, opened, calls, phase, project_root,
                   baseline, current, comparison, stdout, outcome>>

\* worktrees_root.mkdir(parents=True, exist_ok=True); if not worktree_dir.exists()
CheckWorktree ==
    /\ pc = "check_worktree"
    /\ fs_dirs' = fs_dirs \cup DirsDownTo(RepoRoot, BUILD_SUBDIR \o <<BENCH_WORKTREES_DIR_NAME>>)
    /\ pc' = IF ~Exists(project_root) THEN "add_worktree" ELSE "conan_check"
    /\ UNCHANGED <<args, fs_files, opened, calls, phase, project_root,
                   baseline, current, comparison, stdout, outcome>>

\* Mutant: a failed git worktree add is tried a second time.
AddWorktreeRetrying ==
    /\ pc = "add_worktree"
    /\ calls' = Append(calls, Call("git worktree add --detach", RepoRoot, project_root))
    /\ \/ /\ fs_dirs' = fs_dirs \cup {project_root}
          /\ pc' = "conan_check"
          /\ outcome' = outcome
       \/ /\ fs_dirs' = fs_dirs
          /\ IF \E i \in 1..Len(calls) : calls[i].arg = project_root
             THEN Abort("CalledProcessError")
             ELSE pc' = pc /\ outcome' = outcome
    /\ UNCHANGED <<args, fs_files, opened, phase, project_root,
                   baseline, current, comparison, stdout>>

\* run_cmd(["git", "worktree", "add", "--detach", worktree_dir, ref]): on success
\* the checkout of the commit is on disk; a failure may leave the directory behind.
AddWorktree ==
    /\ pc = "add_worktree"
    /\ calls' = Append(calls, Call("git worktree add --detach", RepoRoot, project_root))
    /\ \/ /\ fs_dirs' = fs_dirs \cup {project_root}
                          \cup (IF CheckoutHasConanInstall(project_root[Len(project_root)])
                                THEN {project_root \o <<ConanInstallPath[1]>>} ELSE {})
          /\ fs_files' = IF CheckoutHasConanInstall(project_root[Len(project_root)])
                         THEN WriteFiles(fs_files,
                                         [f \in {project_root \o ConanInstallPath} |-> ScriptFile])
                         ELSE fs_files
          /\ pc' = "conan_check"
          /\ outcome' = outcome
       \/ /\ fs_dirs' \in {fs_dirs, fs_dirs \cup {project_root}}
          /\ fs_files' = fs_files
          /\ Abort("CalledProcessError")
    /\ UNCHANGED <<args, opened, phase, project_root, baseline, current, comparison, stdout>>

\* ------------------------------------------------------------------ run_benchmarks

\* Mutant: the presence of conan_install.py is not checked.
ConanCheckSkipped ==
    /\ pc = "conan_check"
    /\ pc' = "conan_install"
    /\ UNCHANGED <<args, fs_files, fs_dirs, opened, calls, phase, project_root,
                   baseline, current, comparison, stdout, outcome>>

\* if not conan_install.is_file(): raise SystemExit
ConanCheck ==
    /\ pc = "conan_check"
    /\ IF project_root \o ConanInstallPath \in DOMAIN fs_files
       THEN pc' = "conan_install" /\ outcome' = outcome
       ELSE Abort("ConanInstallNotFound")
    /\ UNCHANGED <<args, fs_files, fs_dirs, opened, calls, phase, project_root,
                   baseline, current, comparison, stdout>>

\* run_cmd([conan_install, CMAKE_PRESET], cwd=project_root)
ConanInstall ==
    /\ pc = "conan_install"
    /\ calls' = Append(calls, Call("conan_install.py benchmark", project_root, <<>>))
    /\ \/ pc' = "cmake_configure" /\ outcome' = outcome
       \/ Abort("CalledProcessError")
    /\ UNCHANGED <<args, fs_files, fs_dirs, opened, phase, project_root,
                   baseline, current, comparison, stdout>>

\* run_cmd(["cmake", "--preset", CMAKE_PRESET], cwd=project_root): the preset's
\* build directory build/benchmark exists afterwards.
CMakeConfigure ==
    /\ pc = "cmake_configure"
    /\ calls' = Append(calls, Call("cmake --preset benchmark", project_root, <<>>))
    /\ \/ /\ fs_dirs' = fs_dirs \cup DirsDownTo(project_root, BUILD_SUBDIR)
          /\ pc' = "cmake_build"
          /\ outcome' = outcome
       \/ /\ fs_dirs' = fs_dirs
          /\ Abort("CalledProcessError")
    /\ UNCHANGED <<args, fs_files, opened, phase, project_root,
                   baseline, current, comparison, stdout>>

\* run_cmd(["cmake", "--build", "--preset", CMAKE_PRESET], cwd=project_root)
CMakeBuild ==
    /\ pc = "cmake_build"
    /\ calls' = Append(calls, Call("cmake --build --preset benchmark", project_root, <<>>))
    /\ \/ pc' = "run_target" /\ outcome' = outcome
       \/ Abort("CalledProcessError")
    /\ UNCHANGED <<args, fs_files, fs_dirs, opened, phase, project_root,
                   baseline, current, comparison, stdout>>

\* run_cmd(["cmake", "--build", build_dir, "--target", BENCH_TARGET]): the
\* benchmarks write their result files into build/benchmark.  With that,
\* run_benchmarks returns; for the run command so does main.
RunTarget ==
    /\ pc = "run_target"
    /\ calls' = Append(calls, Call("cmake --build --target run-benchmark", project_root, <<>>))
    /\ \/ /\ \E d \in Deposits :
                fs_files' = WriteFiles(fs_files,
                                [p \in {project_root \o BUILD_SUBDIR \o <<f>> : f \in DOMAIN d}
                                   |-> d[p[Len(p)]]])
          /\ pc' = IF phase = "run" THEN "done" ELSE "load_results"
          /\ outcome' = IF phase = "run" THEN "ok" ELSE outcome
       \/ /\ fs_files' = fs_files
          /\ Abort("CalledProcessError")
    /\ UNCHANGED <<args, fs_dirs, opened, phase, project_root,
                   baseline, current, comparison, stdout>>

\* return load_benchmarks_from_dir(worktree_dir / BUILD_SUBDIR), assigned to
\* baseline or current by handle_compare_commits.
LoadResults ==
    /\ pc = "load_results"
    /\ LET r == LoadBenchmarksFromDir(project_root \o BUILD_SUBDIR, args.time_key)
       IN  /\ opened' = opened \o r.opened
           /\ IF r.status # "ok"
              THEN Abort(r.status) /\ UNCHANGED <<baseline, current, phase>>
              ELSE IF phase = "baseline"
                   THEN /\ baseline' = r.table
                        /\ phase' = "current"
                        /\ pc' = "ensure_repo_root"
                        /\ UNCHANGED <<current, outcome>>
                   ELSE /\ current' = r.table
                        /\ pc' = "compare"
                        /\ UNCHANGED <<baseline, phase, outcome>>
    /\ UNCHANGED <<args, fs_files, fs_dirs, calls, project_root, comparison, stdout>>

\* ------------------------------------------------------------------ comparator specification

InitCompare ==
    /\ pc = "compare"
    /\ args = CompareJsonArgs("real_time", <<>>, <<>>)
    /\ fs_files = <<>>
    /\ fs_dirs = {}
    /\ opened = <<>>
    /\ calls = <<>>
    /\ phase = "none"
    /\ project_root = <<>>
    /\ \E p \in TablePairs : baseline = p[1] /\ current = p[2]
    /\ comparison = <<>>
    /\ stdout = <<>>
    /\ outcome = "running"

NextCompare == Compare \/ PrintTable

SpecCompare == InitCompare /\ [][NextCompare]_vars

\* ------------------------------------------------------------------ aggregator specification

\* "base", "sub"
BaseDir == << <<98, 97, 115, 101>> >>
SubDir == BaseDir \o << <<115, 117, 98>> >>
\* base/a_bench.json, base/b_bench.json, base/sub/a_bench.json, base/notes.json
FileSlots ==
    { BaseDir \o << <<97>> \o BENCH_SUFFIX >>,
      BaseDir \o << <<98>> \o BENCH_SUFFIX >>,
      SubDir \o << <<97>> \o BENCH_SUFFIX >>,
      BaseDir \o << <<110, 111, 116, 101, 115, 46, 106, 115, 111, 110>> >> }

\* The documents of the input directories: unparseable, a list at the root, no
\* recognised key, an empty list, and lists of entries that define and redefine
\* names, some lacking the name or one of the time fields.
DirDocs == {InvalidDoc, NonDictDoc, NoKeyDoc, EmptyListDoc, DocA1, DocA2B1, DocB2, DocSkips}

\* The directories that hold the files of a set of paths.
Parents(paths) == UNION {{SubSeq(p, 1, k) : k \in 1..(Len(p) - 1)} : p \in paths}

\* Every content of the directory: at most MaxFiles of the slots, each with any
\* of the documents.
DirContents ==
    UNION {[S -> DirDocs] : S \in {T \in SUBSET FileSlots : Cardinality(T) <= MaxFiles}}

InitDir ==
    /\ pc = "load_baseline"
    /\ \E tk \in TimeKeys : args = CompareJsonArgs(tk, BaseDir, BaseDir)
    /\ fs_files \in DirContents
    /\ fs_dirs = {BaseDir} \cup Parents(DOMAIN fs_files)
    /\ opened = <<>>
    /\ calls = <<>>
    /\ phase = "none"
    /\ project_root = <<>>
    /\ baseline = <<>>
    /\ current = <<>>
    /\ comparison = <<>>
    /\ stdout = <<>>
    /\ outcome = "running"

NextDir == LoadBaseline

SpecDir == InitDir /\ [][NextDir]_vars

\* ------------------------------------------------------------------ loader specification

\* The entries of a result file: complete entries that repeat and differ in
\* names and times, entries lacking the name (missing or empty), one or both of
\* the time fields, entries with a time that is no number, and a list element
\* that is not a mapping.
EntryPool ==
    {Entry(Name(A), Time(Fin(1)), Time(Fin(2))),
     Entry(Name(A), Time(Fin(2)), NoField),
     Entry(Name(B), Time(Fin(1)), Time(Fin(1))),
     Entry(Name(B), NoField, Time(Fin(1))),
     Entry(Name(B), NoField, NoField),
     Entry(Name(B), NotANumber, Time(Fin(1))),
     Entry(Name(<<>>), Time(Fin(1)), Time(Fin(1))),
     Entry(NoField, Time(Fin(1)), Time(Fin(1))),
     Entry(NoField, NotANumber, NoField),
     NotAnEntry}

EntryLists == UNION {[1..n -> EntryPool] : n \in 0..MaxEntries}

\* The values of both keys when both are present.
BothKeysColls ==
    {NotAList, ListOf(<<>>),
     ListOf(<<Entry(Name(A), Time(Fin(1)), Time(Fin(1)))>>),
     ListOf(<<Entry(Name(B), Time(Fin(2)), NoField)>>),
     ListOf(<<Entry(Name(A), Time(Fin(1)), Time(Fin(2))), Entry(Name(A), Time(Fin(2)), NoField)>>)}

\* Every content of the one result file: not JSON, not a mapping, a mapping with
\* neither key, with one key (a list of entries or something else), or with both.
LoadDocs ==
    {InvalidDoc, NonDictDoc, NoKeyDoc}
    \cup {Doc("dict", NotAList, NoColl), Doc("dict", NoColl, NotAList)}
    \cup {Doc("dict", ListOf(items), NoColl) : items \in EntryLists}
    \cup {Doc("dict", NoColl, ListOf(items)) : items \in EntryLists}
    \cup {Doc("dict", b, bs) : b \in BothKeysColls, bs \in BothKeysColls}

\* base/a_bench.json
ResultFile == BaseDir \o << <<97>> \o BENCH_SUFFIX >>

\* compare-json with the result file itself as the baseline location.
InitLoad ==
    /\ pc = "load_baseline"
    /\ \E tk \in TimeKeys : args = CompareJsonArgs(tk, ResultFile, ResultFile)
    /\ \E data \in LoadDocs : fs_files = [f \in {ResultFile} |-> data]
    /\ fs_dirs = {BaseDir}
    /\ opened = <<>>
    /\ calls = <<>>
    /\ phase = "none"
    /\ project_root = <<>>
    /\ baseline = <<>>
    /\ current = <<>>
    /\ comparison = <<>>
    /\ stdout = <<>>
    /\ outcome = "running"

NextLoad == LoadBaseline

SpecLoad == InitLoad /\ [][NextLoad]_vars

\* ------------------------------------------------------------------ session specification

\* "curr", "missing"
CurrDir == << <<99, 117, 114, 114>> >>
MissingPath == << <<109, 105, 115, 115, 105, 110, 103>> >>
ResultFileName == <<97>> \o BENCH_SUFFIX

SessionDocs == {InvalidDoc, NonDictDoc, EmptyListDoc, DocA1, DocA2B1, DocB2, DocANeg2B1}

\* compare-json: the directories base and curr, each with or without a result
\* file; each location is named as the directory, as the file, or does not exist.
InitCompareJson ==
    /\ \E tk \in TimeKeys :
       \E b \in {BaseDir, BaseDir \o <<ResultFileName>>, MissingPath} :
       \E c \in {CurrDir, CurrDir \o <<ResultFileName>>, MissingPath} :
          args = CompareJsonArgs(tk, b, c)
    /\ \E S \in SUBSET {BaseDir \o <<ResultFileName>>, CurrDir \o <<ResultFileName>>} :
          fs_files \in [S -> SessionDocs]
    /\ fs_dirs = {BaseDir, CurrDir}

\* The primary checkout, with its conan/conan_install.py.
PrimaryFiles == [f \in {RepoRoot \o ConanInstallPath} |-> ScriptFile]
PrimaryDirs == {RepoRoot, RepoRoot \o <<ConanInstallPath[1]>>}

\* The worktree of "a1" as an earlier session left it.
OldWorktree == WorktreesRoot \o << <<97, 49>> >>
OldWorktreeFiles == [f \in {OldWorktree \o ConanInstallPath} |-> ScriptFile]
OldWorktreeDirs ==
    DirsDownTo(RepoRoot, BUILD_SUBDIR \o <<BENCH_WORKTREES_DIR_NAME>>)
    \cup {OldWorktree, OldWorktree \o <<ConanInstallPath[1]>>}

\* The directory of the worktree of "b2" as a failed `git worktree add` of an
\* earlier session left it: without the checkout.
PartialWorktree == WorktreesRoot \o << <<98, 50>> >>
PartialWorktreeDirs ==
    DirsDownTo(RepoRoot, BUILD_SUBDIR \o <<BENCH_WORKTREES_DIR_NAME>>) \cup {PartialWorktree}

\* compare-commits: any two refs; no worktree exists yet, or the worktree of
\* "a1" does, or the partial worktree of "b2" does.
InitCompareCommits ==
    /\ \E b \in Refs : \E c \in Refs : args = CompareCommitsArgs("real_time", b, c)
    /\ \/ fs_files = PrimaryFiles /\ fs_dirs = PrimaryDirs
       \/ /\ fs_files = WriteFiles(PrimaryFiles, OldWorktreeFiles)
          /\ fs_dirs = PrimaryDirs \cup OldWorktreeDirs
       \/ /\ fs_files = PrimaryFiles
          /\ fs_dirs = PrimaryDirs \cup PartialWorktreeDirs

\* run: in a checkout with or without conan/conan_install.py.
InitRun ==
    /\ args = RunArgs
    /\ \/ fs_files = PrimaryFiles /\ fs_dirs = PrimaryDirs
       \/ fs_files = <<>> /\ fs_dirs = {RepoRoot}

Init ==
    /\ pc = "main"
    /\ InitCompareJson \/ InitCompareCommits \/ InitRun
    /\ opened = <<>>
    /\ calls = <<>>
    /\ phase = "none"
    /\ project_root = <<>>
    /\ baseline = <<>>
    /\ current = <<>>
    /\ comparison = <<>>
    /\ stdout = <<>>
    /\ outcome = "running"

Next ==
    \/ Main
    \/ LoadBaseline
    \/ LoadCurrent
    \/ EnsureRepoRoot
    \/ ShortRef
    \/ CheckWorktree
    \/ AddWorktree
    \/ ConanCheck
    \/ ConanInstall
    \/ CMakeConfigure
    \/ CMakeBuild
    \/ RunTarget
    \/ LoadResults
    \/ Compare
    \/ PrintTable

Spec == Init /\ [][Next]_vars

\* ------------------------------------------------------------------ primary results specification

\* compare-json on the results directory of the primary checkout after `run` and
\* compare-commits sessions: the run-benchmark target has left its result files
\* in <repo>/build/benchmark and in <worktree of a1>/build/benchmark.
PrimaryResults == RepoRoot \o BUILD_SUBDIR
WorktreeResults == OldWorktree \o BUILD_SUBDIR
DepositedIn(directory, d) ==
    [p \in {directory \o <<f>> : f \in DOMAIN d} |-> d[p[Len(p)]]]

InitPrimary ==
    /\ pc = "main"
    /\ \E tk \in TimeKeys : \E c \in {PrimaryResults, WorktreeResults} :
          args = CompareJsonArgs(tk, PrimaryResults, c)
    /\ \E pd \in Deposits : \E wd \in Deposits \ { <<>> } :
          fs_files = WriteFiles(WriteFiles(PrimaryFiles, OldWorktreeFiles),
                                WriteFiles(DepositedIn(PrimaryResults, pd),
                                           DepositedIn(WorktreeResults, wd)))
    /\ fs_dirs = PrimaryDirs \cup OldWorktreeDirs \cup DirsDownTo(OldWorktree, BUILD_SUBDIR)
    /\ opened = <<>>
    /\ calls = <<>>
    /\ phase = "none"
    /\ project_root = <<>>
    /\ baseline = <<>>
    /\ current = <<>>
    /\ comparison = <<>>
    /\ stdout = <<>>
    /\ outcome = "running"

NextPrimary == Main \/ LoadBaseline \/ LoadCurrent \/ Compare \/ PrintTable

SpecPrimary == InitPrimary /\ [][NextPrimary]_vars

\* ------------------------------------------------------------------ concurrent invocations

\* Two invocations of compare-commits at once, in one repository.  Each is a
\* process of its own: pc, args, project_root and outcome hold one value per
\* invocation, the file system is shared, and calls logs whose call it was.  An
\* invocation is followed through run_benchmarks_for_commit for its baseline
\* commit; every call into git, the file system or the build is one step, and
\* the steps of the two invocations interleave freely.
Procs == {1, 2}

\* Mutant: every commit is given the same worktree directory.
WorktreeDirShared(short) == WorktreesRoot \o << <<119, 116>> >>

\* worktree_dir = worktrees_root / short
WorktreeDir(short) == WorktreesRoot \o <<short>>

CallBy(p, call) == [proc |-> p, cmd |-> call.cmd, cwd |-> call.cwd, arg |-> call.arg]

\* repo_root = ensure_repo_root(); short = short_ref(ref); worktree_dir = ...
RaceResolve(p) ==
    /\ pc[p] = "short_ref"
    /\ calls' = calls \o <<CallBy(p, Call("git rev-parse --show-toplevel", <<>>, <<>>)),
                           CallBy(p, Call("git rev-parse --short", <<>>, args[p].baseline))>>
    /\ IF ShortOfRef(args[p].baseline) = <<>>
       THEN /\ pc' = [pc EXCEPT ![p] = "done"]
            /\ outcome' = [outcome EXCEPT ![p] = "CalledProcessError"]
            /\ project_root' = project_root
       ELSE /\ pc' = [pc EXCEPT ![p] = "check_worktree"]
            /\ project_root' =
                  [project_root EXCEPT ![p] = WorktreeDir(ShortOfRef(args[p].baseline))]
            /\ outcome' = outcome
    /\ UNCHANGED <<args, fs_files, fs_dirs, opened, phase, baseline, current, comparison, stdout>>

\* worktrees_root.mkdir(parents=True, exist_ok=True); if not worktree_dir.exists()
RaceCheckWorktree(p) ==
    /\ pc[p] = "check_worktree"
    /\ fs_dirs' = fs_dirs \cup DirsDownTo(RepoRoot, BUILD_SUBDIR \o <<BENCH_WORKTREES_DIR_NAME>>)
    /\ pc' = [pc EXCEPT ![p] = IF ~Exists(project_root[p]) THEN "add_worktree" ELSE "run"]
    /\ UNCHANGED <<args, fs_files, opened, calls, phase, project_root,
                   baseline, current, comparison, stdout, outcome>>

\* run_cmd(["git", "worktree", "add", "--detach", worktree_dir, ref]), whatever
\* the other invocation has done to the directory since the check.
RaceAddWorktree(p) ==
    /\ pc[p] = "add_worktree"
    /\ calls' = Append(calls, CallBy(p, Call("git worktree add --detach", RepoRoot,
                                             project_root[p])))
    /\ \/ /\ fs_dirs' = fs_dirs \cup {project_root[p]}
                          \cup (IF CheckoutHasConanInstall(project_root[p][Len(project_root[p])])
                                THEN {project_root[p] \o <<ConanInstallPath[1]>>} ELSE {})
          /\ fs_files' = IF CheckoutHasConanInstall(project_root[p][Len(project_root[p])])
                         THEN WriteFiles(fs_files,
                                  [f \in {project_root[p] \o ConanInstallPath} |-> ScriptFile])
                         ELSE fs_files
          /\ pc' = [pc EXCEPT ![p] = "run"]
          /\ outcome' = outcome
       \/ /\ fs_dirs' \in {fs_dirs, fs_dirs \cup {project_root[p]}}
          /\ fs_files' = fs_files
          /\ pc' = [pc EXCEPT ![p] = "done"]
          /\ outcome' = [outcome EXCEPT ![p] = "CalledProcessError"]
    /\ UNCHANGED <<args, opened, phase, project_root, baseline, current, comparison, stdout>>

\* run_benchmarks(worktree_dir): the check for conan_install.py, then the build
\* and the run, which deposit below worktree_dir / BUILD_SUBDIR or fail.
RaceRunBenchmarks(p) ==
    /\ pc[p] = "run"
    /\ pc' = [pc EXCEPT ![p] = "done"]
    /\ IF project_root[p] \o ConanInstallPath \notin DOMAIN fs_files
       THEN /\ outcome' = [outcome EXCEPT ![p] = "ConanInstallNotFound"]
            /\ UNCHANGED <<fs_files, fs_dirs, calls>>
       ELSE /\ calls' = Append(calls, CallBy(p, Call("conan_install.py benchmark",
                                                     project_root[p], <<>>)))
            /\ \/ /\ \E d \in Deposits :
                        fs_files' = WriteFiles(fs_files,
                           [f \in {project_root[p] \o BUILD_SUBDIR \o <<n>> : n \in DOMAIN d}
                              |-> d[f[Len(f)]]])
                  /\ fs_dirs' = fs_dirs \cup DirsDownTo(project_root[p], BUILD_SUBDIR)
                  /\ outcome' = [outcome EXCEPT ![p] = "ok"]
               \/ /\ UNCHANGED <<fs_files, fs_dirs>>
                  /\ outcome' = [outcome EXCEPT ![p] = "CalledProcessError"]
    /\ UNCHANGED <<args, opened, phase, project_root, baseline, current, comparison, stdout>>

InitRace ==
    /\ pc = [p \in Procs |-> "short_ref"]
    /\ \E b \in [Procs -> Refs] :
          args = [p \in Procs |-> CompareCommitsArgs("real_time", b[p], RefMain)]
    /\ \/ fs_files = PrimaryFiles /\ fs_dirs = PrimaryDirs
       \/ /\ fs_files = WriteFiles(PrimaryFiles, OldWorktreeFiles)
          /\ fs_dirs = PrimaryDirs \cup OldWorktreeDirs
    /\ opened = <<>>
    /\ calls = <<>>
    /\ phase = "baseline"
    /\ project_root = [p \in Procs |-> <<>>]
    /\ baseline = <<>>
    /\ current = <<>>
    /\ comparison = <<>>
    /\ stdout = <<>>
    /\ outcome = [p \in Procs |-> "running"]

NextRace ==
    \E p \in Procs :
       \/ RaceResolve(p)
       \/ RaceCheckWorktree(p)
       \/ RaceAddWorktree(p)
       \/ RaceRunBenchmarks(p)

SpecRace == InitRace /\ [][NextRace]_vars

\* ------------------------------------------------------------------ conan/release_conan_packages.py

\* The release script runs in the same state: args is its parsed command line,
\* fs_files and fs_dirs hold conan/profiles, calls logs the conan commands with
\* their exit status, and phase is the position of the loop of build_and_upload
\* in the selected build profiles.

\* "conan/profiles", relative to the working directory.
ProfilesDir == << <<99, 111, 110, 97, 110>>, <<112, 114, 111, 102, 105, 108, 101, 115>> >>
\* The profiles "gd" and "gr", the hidden file ".h", the name "xx" of no file,
\* and the remote "r".
GccDebug == <<103, 100>>
GccRelease == <<103, 114>>
HiddenFile == <<46, 104>>
NoSuchProfile == <<120, 120>>
RemoteR == <<114>>

\* An optional command line value: None when not given.
Opt(given, value) == [given |-> given, value |-> value]
None == Opt(FALSE, <<>>)
Given(value) == Opt(TRUE, value)

ReleaseArgs(remote, profiles, host_profile, disable_upload) ==
    [command |-> "release", remote |-> remote, profiles |-> profiles,
     host_profile |-> host_profile, disable_upload |-> disable_upload]

\* do_upload = not args.disable_upload
DoUpload == ~args.disable_upload

\* One conan command with the exit status it returned.
ConanCall(cmd, arg, rc) == [cmd |-> cmd, cwd |-> <<>>, arg |-> arg, rc |-> rc]

\* detect_profiles(): the sorted names of the files of conan/profiles that do
\* not start with a dot.
AvailableProfiles ==
    LET found == {p \in DOMAIN fs_files :
                     /\ Len(p) = Len(ProfilesDir) + 1
                     /\ SubSeq(p, 1, Len(ProfilesDir)) = ProfilesDir
                     /\ p[Len(p)] # <<>>
                     /\ p[Len(p)][1] # 46}
        paths == SortedPaths(found)
    IN  [i \in 1..Len(paths) |-> paths[i][Len(paths[i])]]

Elems(s) == {s[i] : i \in 1..Len(s)}

\* selected_build_profiles
SelectedBuildProfiles ==
    IF args.profiles.given THEN args.profiles.value ELSE AvailableProfiles

\* The host profile used with the build profile.
HostProfileFor(build_profile) ==
    IF args.host_profile.given THEN args.host_profile.value ELSE build_profile

\* main(): do_upload without a remote ends the script at once.
ReleaseMain ==
    /\ pc = "main"
    /\ IF DoUpload /\ (~args.remote.given \/ args.remote.value = <<>>)
       THEN Abort("RemoteRequired")
       ELSE pc' = "detect_package_name" /\ outcome' = outcome
    /\ UNCHANGED <<args, fs_files, fs_dirs, opened, calls, phase, project_root,
                   baseline, current, comparison, stdout>>

\* detect_package_name(): conan inspect . --format=json, which may fail, print
\* something that is not JSON, or have no name.
DetectPackageName ==
    /\ pc = "detect_package_name"
    /\ \/ /\ calls' = Append(calls, ConanCall("conan inspect", <<>>, 0))
          /\ \/ pc' = "detect_profiles" /\ outcome' = outcome
             \/ Abort("InspectFailed")
       \/ /\ calls' = Append(calls, ConanCall("conan inspect", <<>>, 1))
          /\ Abort("CommandFailed")
    /\ UNCHANGED <<args, fs_files, fs_dirs, opened, phase, project_root,
                   baseline, current, comparison, stdout>>

\* detect_profiles()
DetectProfiles ==
    /\ pc = "detect_profiles"
    /\ IF ProfilesDir \notin fs_dirs THEN Abort("PathNotFound")
       ELSE IF AvailableProfiles = <<>> THEN Abort("NoProfiles")
       ELSE pc' = "select_profiles" /\ outcome' = outcome
    /\ UNCHANGED <<args, fs_files, fs_dirs, opened, calls, phase, project_root,
                   baseline, current, comparison, stdout>>

\* main(): build profile selection and host profile validation.
SelectProfiles ==
    /\ pc = "select_profiles"
    /\ IF args.profiles.given /\ ~(Elems(args.profiles.value) \subseteq Elems(AvailableProfiles))
       THEN Abort("ProfilesNotFound")
       ELSE IF args.host_profile.given /\ args.host_profile.value \notin Elems(AvailableProfiles)
       THEN Abort("HostProfileNotFound")
       ELSE /\ pc' = IF DoUpload THEN "detect_remotes" ELSE "create"
            /\ outcome' = outcome
    /\ UNCHANGED <<args, fs_files, fs_dirs, opened, calls, phase, project_root,
                   baseline, current, comparison, stdout>>

\* main(): remote validation with the names `conan remote list` prints.
DetectRemotes ==
    /\ pc = "detect_remotes"
    /\ \/ /\ calls' = Append(calls, ConanCall("conan remote list", <<>>, 0))
          /\ \E remote_names \in {{}, {RemoteR}} :
                IF args.remote.value \notin remote_names
                THEN Abort("RemoteNotFound")
                ELSE pc' = "create" /\ outcome' = outcome
       \/ /\ calls' = Append(calls, ConanCall("conan remote list", <<>>, 1))
          /\ Abort("CommandFailed")
    /\ UNCHANGED <<args, fs_files, fs_dirs, opened, phase, project_root,
                   baseline, current, comparison, stdout>>

\* The end of one pass of the loop of build_and_upload: the next build profile,
\* or the end of the script.
NextProfile ==
    IF phase < Len(SelectedBuildProfiles)
    THEN pc' = "create" /\ phase' = phase + 1 /\ outcome' = outcome
    ELSE pc' = "done" /\ phase' = phase /\ outcome' = "ok"

\* Mutant: a failed conan create does not end the script.
CreateIgnoringFailure ==
    /\ pc = "create"
    /\ LET build_profile == SelectedBuildProfiles[phase]
           host_profile == HostProfileFor(build_profile)
       IN  IF \E f \in {build_profile, host_profile} :
                 ProfilesDir \o <<f>> \notin DOMAIN fs_files
           THEN calls' = calls /\ phase' = phase /\ Abort("PathNotFound")
           ELSE \E rc \in {0, 1} :
                  /\ calls' = Append(calls, ConanCall("conan create",
                                        [build |-> build_profile, host |-> host_profile], rc))
                  /\ IF DoUpload THEN pc' = "upload" /\ phase' = phase /\ outcome' = outcome
                     ELSE NextProfile
    /\ UNCHANGED <<args, fs_files, fs_dirs, opened, project_root,
                   baseline, current, comparison, stdout>>

\* build_and_upload(), one build profile: ensure_path_exists for the profile
\* files, then run(conan create . -pr:h <host> -pr:b <build> --build=missing);
\* run() exits the script when the command fails.
Create ==
    /\ pc = "create"
    /\ LET build_profile == SelectedBuildProfiles[phase]
           host_profile == HostProfileFor(build_profile)
       IN  IF \E f \in {build_profile, host_profile} :
                 ProfilesDir \o <<f>> \notin DOMAIN fs_files
           THEN calls' = calls /\ phase' = phase /\ Abort("PathNotFound")
           ELSE \/ /\ calls' = Append(calls, ConanCall("conan create",
                                         [build |-> build_profile, host |-> host_profile], 0))
                   /\ IF DoUpload THEN pc' = "upload" /\ phase' = phase /\ outcome' = outcome
                      ELSE NextProfile
                \/ /\ calls' = Append(calls, ConanCall("conan create",
                                         [build |-> build_profile, host |-> host_profile], 1))
                   /\ phase' = phase
                   /\ Abort("CommandFailed")
    /\ UNCHANGED <<args, fs_files, fs_dirs, opened, project_root,
                   baseline, current, comparison, stdout>>

\* build_and_upload(), if do_upload: run(conan upload <name>/* -r <remote>
\* --confirm --skip-upload-if-immutable).
Upload ==
    /\ pc = "upload"
    /\ \/ /\ calls' = Append(calls, ConanCall("conan upload", args.remote.value, 0))
          /\ NextProfile
       \/ /\ calls' = Append(calls, ConanCall("conan upload", args.remote.value, 1))
          /\ phase' = phase
          /\ Abort("CommandFailed")
    /\ UNCHANGED <<args, fs_files, fs_dirs, opened, project_root,
                   baseline, current, comparison, stdout>>

\* ------------------------------------------------------------------ release specification

\* The command lines: no remote, an empty one or "r"; no -p, or one or two names
\* in the order given; no host profile or one; with and without --disable-upload.
RemoteArgs == {None, Given(<<>>), Given(RemoteR)}
ProfileArgs ==
    {None, Given(<<GccDebug>>), Given(<<GccRelease, GccDebug>>), Given(<<GccDebug, NoSuchProfile>>)}
HostProfileArgs == {None, Given(GccRelease), Given(NoSuchProfile)}

\* conan/profiles is missing, or holds any of gd, gr and .h.
InitRelease ==
    /\ pc = "main"
    /\ \E r \in RemoteArgs : \E p \in ProfileArgs : \E h \in HostProfileArgs :
       \E d \in BOOLEAN : args = ReleaseArgs(r, p, h, d)
    /\ \/ fs_dirs = {} /\ fs_files = <<>>
       \/ /\ fs_dirs = {<<ProfilesDir[1]>>, ProfilesDir}
          /\ \E S \in SUBSET {GccDebug, GccRelease, HiddenFile} :
                fs_files = [p \in {ProfilesDir \o <<f>> : f \in S} |-> ScriptFile]
    /\ opened = <<>>
    /\ calls = <<>>
    /\ phase = 1
    /\ project_root = <<>>
    /\ baseline = <<>>
    /\ current = <<>>
    /\ comparison = <<>>
    /\ stdout = <<>>
    /\ outcome = "running"

NextRelease ==
    \/ ReleaseMain
    \/ DetectPackageName
    \/ DetectProfiles
    \/ SelectProfiles
    \/ DetectRemotes
    \/ Create
    \/ Upload

SpecRelease == InitRelease /\ [][NextRelease]_vars

\* ------------------------------------------------------------------ claims: comparator

Common == Keys(baseline) \cap Keys(current)
\* compare_results has run in this session.
Compared == pc \in {"print", "done"}
\* print_comparison_table has run and returned.
Printed == pc = "done" /\ outcome = "ok"

RowLines == SelectSeq(stdout, LAMBDA l : l.kind = "row")
AverageLines == SelectSeq(stdout, LAMBDA l : l.kind = "average")

\* C1: with at least one common name, compare_results returns exactly one row per
\* name of keys(baseline) \cap keys(current), none for another name, and each row
\* carries baseline[name] and current[name] unchanged.
C1_RowsAreTheIntersection ==
    (Compared /\ Common # {}) =>
        /\ Keys(comparison) = Common
        /\ Len(comparison) = Cardinality(Common)
        /\ \A i \in 1..Len(comparison) :
              /\ comparison[i][2][1] = Get(baseline, comparison[i][1])
              /\ comparison[i][2][2] = Get(current, comparison[i][1])

C1_Witness ==
    /\ pc = "print"
    /\ Len(comparison) = 2
    /\ Cardinality(Keys(baseline)) = 3
    /\ \E i \in 1..2 : comparison[i][2][1] # comparison[i][2][2]

\* s is the float quotient base / cur for cur # 0, stated without FloatDiv: for
\* finite operands s * cur = base, otherwise the IEEE 754 special cases.
IsQuotient(s, base, cur) ==
    IF IsNaN(base) \/ IsNaN(cur) THEN IsNaN(s)
    ELSE IF IsInf(base) /\ IsInf(cur) THEN IsNaN(s)
    ELSE IF IsInf(base) THEN IsInf(s) /\ Sign(s) = Sign(base) * Sign(cur)
    ELSE IF IsInf(cur) THEN s = Zero
    ELSE IsFinite(s) /\ s[1] * cur[1] * base[2] = base[1] * s[2] * cur[2]

\* C3: every emitted row has speedup = baseline / current when current # 0 and
\* +inf when current = 0 (also when baseline = 0); a zero current value never
\* makes the comparison fail.
C3_SpeedupRule ==
    (Compared /\ Common # {}) =>
        /\ pc = "print" \/ stdout # <<>>
        /\ comparison # <<>>
        /\ \A i \in 1..Len(comparison) :
              LET base == comparison[i][2][1]
                  cur == comparison[i][2][2]
                  s == comparison[i][2][3]
              IN  IF cur = Zero THEN s = PosInf ELSE IsQuotient(s, base, cur)

C3_Witness ==
    /\ pc = "print"
    /\ \E i \in 1..Len(comparison) :
          /\ comparison[i][2][1] = Zero
          /\ comparison[i][2][2] = Zero
          /\ comparison[i][2][3] = PosInf
    /\ \E i \in 1..Len(comparison) :
          /\ comparison[i][2][1] = Fin(1)
          /\ comparison[i][2][2] = Fin(2)
          /\ comparison[i][2][3] = <<1, 2>>

\* p is (cur - base) / base * 100 for base # 0, stated without the model's float
\* operators: for finite operands p * base = 100 * (cur - base).
IsPercentChange(p, base, cur) ==
    IF IsNaN(base) \/ IsNaN(cur) \/ IsInf(base) THEN IsNaN(p)
    ELSE IF IsInf(cur) THEN IsInf(p) /\ Sign(p) = Sign(cur) * Sign(base)
    ELSE /\ IsFinite(p)
         /\ p[1] * base[1] * cur[2] = 100 * (cur[1] * base[2] - base[1] * cur[2]) * p[2]

\* C4: every emitted row has percent_change = (current - baseline) / baseline * 100
\* when baseline # 0 and +inf when baseline = 0; a zero baseline never makes the
\* comparison fail.
C4_PercentRule ==
    (Compared /\ Common # {}) =>
        /\ pc = "print" \/ stdout # <<>>
        /\ comparison # <<>>
        /\ \A i \in 1..Len(comparison) :
              LET base == comparison[i][2][1]
                  cur == comparison[i][2][2]
                  p == comparison[i][2][4]
              IN  IF base = Zero THEN p = PosInf ELSE IsPercentChange(p, base, cur)

C4_Witness ==
    /\ pc = "print"
    /\ \E i \in 1..Len(comparison) :
          /\ comparison[i][2][1] = Zero
          /\ comparison[i][2][2] = Fin(2)
          /\ comparison[i][2][4] = PosInf
    /\ \E i \in 1..Len(comparison) :
          /\ comparison[i][2][1] = Fin(2)
          /\ comparison[i][2][2] = Fin(1)
          /\ comparison[i][2][4] = Fin(-50)

Ascending(names) ==
    \A i, j \in 1..Len(names) : i < j => StrLess(names[i], names[j])

\* C5: the rows are stored by compare_results and printed by print_comparison_table
\* in ascending lexicographic order of name, whatever the insertion order of the
\* two input tables.
C5_RowsSortedByName ==
    /\ Compared => Ascending(KeySeq(comparison))
    /\ Printed =>
          /\ Len(RowLines) = Len(comparison)
          /\ \A i \in 1..Len(RowLines) : RowLines[i].name = comparison[i][1]

C5_Witness ==
    /\ Printed
    /\ KeySeq(baseline) = << <<98>>, <<97, 98>>, <<97>> >>
    /\ KeySeq(current) = << <<97, 98>>, <<98>>, <<97>> >>
    /\ [i \in 1..Len(RowLines) |-> RowLines[i].name] = << <<97>>, <<97, 98>>, <<98>> >>

\* The speedups of the rows that are finite and non-zero.
QualifyingRows == {i \in 1..Len(comparison) :
                      IsFinite(comparison[i][2][3]) /\ comparison[i][2][3] # Zero}

RECURSIVE SumOfSpeedups(_)
SumOfSpeedups(I) ==
    IF I = {} THEN Zero
    ELSE LET i == CHOOSE k \in I : TRUE
         IN  FloatAdd(comparison[i][2][3], SumOfSpeedups(I \ {i}))

\* the mean m of the qualifying speedups: m * count = sum
MeanOfQualifying ==
    LET sum == SumOfSpeedups(QualifyingRows)
    IN  Rat(sum[1], sum[2] * Cardinality(QualifyingRows))

\* C6: the printed average speedup is the arithmetic mean of exactly the rows'
\* speedups that are finite and non-zero; when no row qualifies no average line
\* is printed.
C6_AverageOverFiniteNonZero ==
    (pc = "done" /\ Compared /\ comparison # <<>>) =>
        /\ outcome = "ok"
        /\ IF QualifyingRows = {} THEN AverageLines = <<>>
           ELSE /\ Len(AverageLines) = 1
                /\ AverageLines[1].cells[3] = NumCell(MeanOfQualifying, 3)

\* ------------------------------------------------------------------ claims: aggregator

\* The baseline location has been aggregated / aggregated with success.
DirDone == pc # "load_baseline"
DirLoaded == pc = "load_current"

\* The files below the baseline directory, at any depth, named <stem>_bench.json.
CandidateFiles ==
    {p \in DOMAIN fs_files :
        /\ \E k \in 1..(Len(p) - 1) : SubSeq(p, 1, k) = args.baseline
        /\ \E stem \in 0..Len(p[Len(p)]) :
              SubSeq(p[Len(p)], stem + 1, Len(p[Len(p)])) = BENCH_SUFFIX}

\* The table of one file, as the loader reads it.
TableOf(p) == LoadBenchmarksFromFile(p, args.time_key)

\* The candidate file that is last in path order among those defining the name.
LastDefining(name) ==
    LET defs == {p \in CandidateFiles : name \in Keys(TableOf(p).table)}
    IN  CHOOSE p \in defs : \A q \in defs \ {p} : PathLess(q, p)

\* C7: directory aggregation merges the matching files in ascending path order
\* with last-write-wins: a name holds the value of the last file, in sorted path
\* order, that defines it, and the merged keys are the union of the files' keys.
C7_LastWriteWins ==
    DirLoaded =>
        /\ {opened[i] : i \in 1..Len(opened)} = CandidateFiles
        /\ \A i, j \in 1..Len(opened) : i < j => PathLess(opened[i], opened[j])
        /\ Keys(baseline) = UNION {Keys(TableOf(p).table) : p \in CandidateFiles}
        /\ \A name \in Keys(baseline) :
              Get(baseline, name) = Get(TableOf(LastDefining(name)).table, name)

C7_Witness ==
    /\ DirLoaded
    /\ args.time_key = "real_time"
    /\ opened = <<BaseDir \o << <<98>> \o BENCH_SUFFIX >>, SubDir \o << <<97>> \o BENCH_SUFFIX >> >>
    /\ TableOf(opened[1]).table = <<<<A, Fin(2)>>, <<B, Fin(1)>>>>
    /\ TableOf(opened[2]).table = <<<<A, Fin(1)>>>>
    /\ baseline = <<<<A, Fin(1)>>, <<B, Fin(1)>>>>

\* C8: merging is idempotent: the loaded table merged with itself, and the same
\* source sequence merged twice over, both equal the table loaded once.
C8_MergeIdempotent ==
    DirLoaded =>
        /\ DictUpdate(baseline, baseline) = baseline
        /\ MergeFiles(opened \o opened, args.time_key, <<>>, <<>>).table = baseline

C8_Witness ==
    /\ DirLoaded
    /\ Len(opened) = 2
    /\ Len(baseline) = 2
    /\ \E name \in Keys(baseline) : \A i \in 1..2 : name \in Keys(TableOf(opened[i]).table)

\* C9: a directory with no file matching *_bench.json at any depth fails with "no
\* matching files" before any file is loaded, and that outcome is told apart from
\* "files matched but no usable measurements".
C9_NoMatchingFiles ==
    /\ (DirDone /\ CandidateFiles = {}) => (outcome = "NoMatchingFiles" /\ opened = <<>>)
    /\ outcome = "NoMatchingFiles" => (pc = "done" /\ CandidateFiles = {})
    /\ outcome = "EmptyResultSet" => (CandidateFiles # {} /\ opened # <<>>)

C9_Witness ==
    /\ outcome = "NoMatchingFiles"
    /\ DOMAIN fs_files # {}
    /\ opened = <<>>

\* C10: when at least one candidate file exists and every candidate loads to an
\* empty table the aggregation fails with EmptyResultSet; an aggregation that
\* succeeds returns a non-empty table.
C10_EmptyResultSet ==
    /\ (DirDone /\ CandidateFiles # {} /\ \A p \in CandidateFiles : TableOf(p) = Loaded(<<>>))
          => (pc = "done" /\ outcome = "EmptyResultSet")
    /\ DirLoaded => baseline # <<>>

C10_Witness ==
    /\ outcome = "EmptyResultSet"
    /\ Len(opened) = 2
    /\ \E p \in CandidateFiles : fs_files[p].root = "dict" /\ fs_files[p].benchmarks.items # <<>>

\* ------------------------------------------------------------------ claims: session

\* C2: in a compare-json and in a compare-commits session alike, when the two
\* loaded tables share no name (either may be empty), compare_results ends the
\* session with NoCommonBenchmarks: it returns no comparison table and nothing is
\* printed, then or at any time in a session that ended this way.
C2_NoCommonBenchmarks ==
    /\ [][(pc = "compare" /\ Common = {}) =>
            /\ pc' = "done"
            /\ outcome' = "NoCommonBenchmarks"
            /\ comparison' = <<>>
            /\ stdout' = <<>>]_vars
    /\ [](outcome = "NoCommonBenchmarks" =>
            /\ Common = {}
            /\ comparison = <<>>
            /\ stdout = <<>>)

\* The commit-pair flow ran both commits' benchmarks in two worktrees, loaded two
\* non-empty tables without a common name, and ended with NoCommonBenchmarks.
C2_Witness ==
    /\ args.command = "compare-commits"
    /\ outcome = "NoCommonBenchmarks"
    /\ baseline # <<>>
    /\ current # <<>>
    /\ Len(opened) = 2
    /\ opened[1] # opened[2]

\* ------------------------------------------------------------------ claims: locations

\* The location about to be loaded: a path of compare-json, or the results
\* directory of the worktree of compare-commits.
LocationToLoad ==
    IF pc = "load_baseline" THEN args.baseline
    ELSE IF pc = "load_current" THEN args.current
    ELSE project_root \o BUILD_SUBDIR

Loading == pc \in {"load_baseline", "load_current", "load_results"}

\* C11: loading a location that is neither an existing file nor an existing
\* directory ends the session with the tool's own NotADirectory condition, in
\* the compare-json flow as in the compare-commits flow, and produces no table.
C11_MissingLocationNotADirectory ==
    [][(Loading /\ ~Exists(LocationToLoad)) =>
          /\ pc' = "done"
          /\ outcome' = "NotADirectory"
          /\ baseline' = baseline
          /\ current' = current]_vars

\* ------------------------------------------------------------------ claims: loader

\* The document's structure is not recognised: the root is not a mapping, or it
\* is a mapping with neither "benchmark" nor "benchmarks".
Unrecognized(data) ==
    \/ data.root = "other"
    \/ data.root = "dict" /\ ~data.benchmark.present /\ ~data.benchmarks.present

\* The position of an opened file in the order of opening.
OpenedAt(p) == CHOOSE i \in 1..Len(opened) : opened[i] = p

\* C12: a file whose document is not recognised loads to an empty table without
\* failing, and the directory aggregation goes on with the files after it: the
\* aggregation never stops at such a file while a later candidate remains, and
\* when every candidate loads, the table holds the names of all of them.
C12_UnrecognizedIsEmpty ==
    DirDone =>
        /\ \A p \in CandidateFiles :
              Unrecognized(fs_files[p]) =>
                 /\ TableOf(p) = Loaded(<<>>)
                 /\ (\E i \in 1..Len(opened) : opened[i] = p)
                       => \/ OpenedAt(p) < Len(opened)
                          \/ \A q \in CandidateFiles \ {p} : PathLess(q, p)
        /\ (\A p \in CandidateFiles : TableOf(p).status = "ok")
              => /\ {opened[i] : i \in 1..Len(opened)} = CandidateFiles
                 /\ Keys(baseline) = UNION {Keys(TableOf(p).table) : p \in CandidateFiles}
                 /\ outcome \in {"running", "NoMatchingFiles", "EmptyResultSet"}

\* A file with a list at its root and then a file of measurements were opened,
\* and the aggregation returned the measurements.
C12_Witness ==
    /\ DirLoaded
    /\ Len(opened) = 2
    /\ fs_files[opened[1]].root = "other"
    /\ baseline # <<>>

\* The document of the result file and, when it is a mapping whose chosen key
\* ("benchmark" before "benchmarks") holds a list, the entries of that list.
FileDoc == fs_files[ResultFile]
HasEntryList ==
    /\ FileDoc.root = "dict"
    /\ \/ FileDoc.benchmark.present /\ FileDoc.benchmark.kind = "list"
       \/ ~FileDoc.benchmark.present /\ FileDoc.benchmarks.present
            /\ FileDoc.benchmarks.kind = "list"
FileEntries ==
    IF FileDoc.benchmark.present THEN FileDoc.benchmark.items ELSE FileDoc.benchmarks.items

FileLoaded == pc = "load_current"

\* The entry's field named by --time-key.
Requested(e) == IF args.time_key = "cpu_time" THEN e.cpu_time ELSE e.real_time
\* The entry has a name (a non-empty one: an empty name counts as none) and the
\* requested time field.
HasBoth(e) == e.name.present /\ e.name.value # <<>> /\ Requested(e).present

\* The last entry of the list that has both and carries the name.
LastEntryNamed(name) ==
    LET idx == {i \in 1..Len(FileEntries) :
                   HasBoth(FileEntries[i]) /\ FileEntries[i].name.value = name}
    IN  FileEntries[CHOOSE i \in idx : \A j \in idx : j <= i]

\* C13: the table loaded from a list of entries holds a name exactly when some
\* entry has both that name and the requested time field, with that entry's
\* value of the field (the last such entry's, when a name repeats); an entry
\* lacking either is skipped, causes no error whatever its other fields are, and
\* leaves the entries before and after it in the table.
C13_EntriesWithNameAndField ==
    /\ (FileLoaded /\ HasEntryList) =>
          /\ Keys(baseline) =
                {FileEntries[i].name.value :
                    i \in {j \in 1..Len(FileEntries) : HasBoth(FileEntries[j])}}
          /\ Len(baseline) = Cardinality(Keys(baseline))
          /\ \A name \in Keys(baseline) :
                Get(baseline, name) = Requested(LastEntryNamed(name)).value
    /\ (pc # "load_baseline" /\ HasEntryList
          /\ \A i \in 1..Len(FileEntries) :
                /\ FileEntries[i].isdict
                /\ HasBoth(FileEntries[i]) => Requested(FileEntries[i]).kind = "number")
          => FileLoaded

\* An entry without the requested field was skipped, and the entry after it is
\* in the table with its value of the requested field.
C13_Witness ==
    /\ FileLoaded
    /\ args.time_key = "cpu_time"
    /\ HasEntryList
    /\ Len(FileEntries) = 2
    /\ FileEntries[1] = Entry(Name(A), Time(Fin(2)), NoField)
    /\ FileEntries[2] = Entry(Name(B), NotANumber, Time(Fin(1)))
    /\ baseline = <<<<B, Fin(1)>>>>

\* C14: whatever the content of a result file (not JSON, not a mapping, a key
\* that holds no list of mappings, a non-numeric time), loading it returns a
\* table, possibly empty, and never raises; and aggregating the directory that
\* holds the file ends with a table or with EmptyResultSet, never with the
\* file's exception.
C14_LoaderNeverRaises ==
    pc # "load_baseline" =>
        /\ FileLoaded
        /\ LoadBenchmarksFromDir(BaseDir, args.time_key).status \in {"ok", "EmptyResultSet"}

\* ------------------------------------------------------------------ claims: worktrees

\* The calls that materialize the worktree at w, and the calls of the build and
\* the run made inside w, by their positions in the session's calls.
AddCallsFor(w) ==
    {i \in 1..Len(calls) : calls[i].cmd = "git worktree add --detach" /\ calls[i].arg = w}
BuildCmds ==
    {"conan_install.py benchmark", "cmake --preset benchmark",
     "cmake --build --preset benchmark", "cmake --build --target run-benchmark"}
BuildCallsIn(w) == {i \in 1..Len(calls) : calls[i].cmd \in BuildCmds /\ calls[i].cwd = w}

\* The session compares two commits and is past its first one.
SecondRequest == args.command = "compare-commits" /\ phase = "current"
\* The working root of the session's first build.
FirstRoot ==
    calls[CHOOSE i \in 1..Len(calls) :
             /\ calls[i].cmd \in BuildCmds
             /\ \A j \in 1..(i - 1) : calls[j].cmd \notin BuildCmds].cwd

\* C15: a request for a worktree whose directory exists (from this session's
\* first request or from an earlier session) changes nothing: git worktree add is
\* not called and the request goes on to the build; and the second request of a
\* session for the key of the first uses the path of the first, whose worktree
\* was added at most once.
C15_SecondRequestIsNoOp ==
    /\ [][(pc = "check_worktree" /\ project_root \in fs_dirs) =>
            /\ pc' = "conan_check"
            /\ calls' = calls
            /\ project_root' = project_root
            /\ fs_files' = fs_files]_vars
    /\ []((SecondRequest /\ ShortOfRef(args.baseline) = ShortOfRef(args.current)) =>
            /\ project_root = FirstRoot
            /\ project_root \in fs_dirs
            /\ pc # "add_worktree"
            /\ Cardinality(AddCallsFor(project_root)) <= 1)

\* "main" then "v1", both the commit a1: the first request added the worktree,
\* the second is past its check and about to build in the same directory.
C15_Witness ==
    /\ SecondRequest
    /\ args.baseline = RefMain
    /\ args.current = RefV1
    /\ pc = "conan_install"
    /\ Cardinality(AddCallsFor(project_root)) = 1
    /\ Cardinality(BuildCallsIn(project_root)) = 4

\* The path keyed by the short id of the commit being processed.
PathOfKey(short) == RepoRoot \o BUILD_SUBDIR \o <<BENCH_WORKTREES_DIR_NAME, short>>

\* The request for the commit of the current phase is past short_ref.
Resolved ==
    /\ args.command = "compare-commits"
    /\ pc \in {"check_worktree", "add_worktree", "conan_check", "conan_install",
               "cmake_configure", "cmake_build", "run_target", "load_results"}

\* C16: once the commit is resolved the worktree path is <repo>/build/benchmark/
\* benchmark_worktrees/<short id>, a function of the short id alone; at the check
\* git worktree add is the next call exactly when nothing exists at that path,
\* and it is called for that path; and a build or run call is made only with an
\* existing worktree directory as its working root, after the add of that
\* directory if there was one in the session.
C16_WorkspaceLifecycle ==
    /\ [](Resolved => project_root = PathOfKey(ShortOfRef(CommitOfPhase)))
    /\ [][pc = "check_worktree" =>
            (pc' = "add_worktree" <=> (project_root \notin fs_dirs
                                       /\ project_root \notin DOMAIN fs_files))]_vars
    /\ [][pc' = "add_worktree" => pc = "check_worktree"]_vars
    /\ [][pc = "add_worktree" =>
            /\ calls' = Append(calls, Call("git worktree add --detach", RepoRoot, project_root))
            /\ pc' \in {"conan_check", "done"}
            /\ pc' = "conan_check" => project_root \in fs_dirs']_vars
    /\ [](args.command = "compare-commits" =>
            \A i \in 1..Len(calls) :
               calls[i].cmd \in BuildCmds =>
                  /\ calls[i].cwd \in fs_dirs
                  /\ \E r \in Refs : calls[i].cwd = PathOfKey(ShortOfRef(r))
                  /\ \A j \in AddCallsFor(calls[i].cwd) : j < i)

\* "dev" had no worktree: it was added, and the build ran inside it.
C16_Witness ==
    /\ args.command = "compare-commits"
    /\ phase = "baseline"
    /\ args.baseline = RefDev
    /\ pc = "load_results"
    /\ AddCallsFor(PathOfKey(<<98, 50>>)) = {3}
    /\ BuildCallsIn(PathOfKey(<<98, 50>>)) = {4, 5, 6, 7}

\* The worktree directories on disk and the paths inside the worktree w.
Workspaces == {w \in fs_dirs : Len(w) = Len(WorktreesRoot) + 1 /\ IsUnder(w, WorktreesRoot)}
InWorkspace(p, w) == p = w \/ IsUnder(p, w)

\* The paths a step creates or rewrites.
Written ==
    (fs_dirs' \ fs_dirs)
    \cup {p \in DOMAIN fs_files' : p \notin DOMAIN fs_files \/ fs_files'[p] # fs_files[p]}

\* C17: no step of the tool removes a directory or a file, so a worktree once on
\* disk stays; and a step that creates or rewrites a path inside a worktree
\* directory is a step of the request for that worktree's key.
C17_WorkspacesPersistAndAreOwned ==
    [][/\ fs_dirs \subseteq fs_dirs'
       /\ DOMAIN fs_files \subseteq DOMAIN fs_files'
       /\ Workspaces \subseteq Workspaces'
       /\ \A p \in Written : \A w \in Workspaces' :
             InWorkspace(p, w) =>
                /\ args.command = "compare-commits"
                /\ w = PathOfKey(ShortOfRef(CommitOfPhase))
                /\ w = project_root]_vars

\* The second commit's results were written into its own worktree while the
\* first commit's worktree and its result file stayed as they were.
C17_Witness ==
    /\ SecondRequest
    /\ pc = "load_results"
    /\ project_root = PathOfKey(<<98, 50>>)
    /\ PathOfKey(<<97, 49>>) \o BUILD_SUBDIR \o <<ResultFileName>> \in DOMAIN fs_files
    /\ PathOfKey(<<98, 50>>) \o BUILD_SUBDIR \o <<ResultFileName>> \in DOMAIN fs_files

\* C18: when git cannot resolve the ref of the commit being processed, the
\* session ends at that call: nothing is created on disk, git worktree add and
\* the build are not called for it, nothing is printed, and an ended session
\* takes no further step (a failed first commit leaves the second unprocessed).
C18_UnresolvableRevisionIsFatal ==
    /\ [][(pc = "short_ref" /\ CommitOfPhase = RefBogus) =>
            /\ pc' = "done"
            /\ outcome' \notin {"running", "ok"}
            /\ calls' = Append(calls, Call("git rev-parse --short", <<>>, RefBogus))
            /\ fs_dirs' = fs_dirs
            /\ fs_files' = fs_files
            /\ stdout' = <<>>
            /\ comparison' = <<>>]_vars
    /\ [][pc # "done"]_vars
    /\ []((args.command = "compare-commits" /\ args.baseline = RefBogus) =>
            /\ \A i \in 1..Len(calls) :
                  calls[i].cmd \in {"git rev-parse --show-toplevel", "git rev-parse --short"}
            /\ Len(calls) <= 2
            /\ phase \in {"none", "baseline"}
            /\ stdout = <<>>)

\* The first commit could not be resolved: the session ended after the two git
\* rev-parse calls, with the second commit, a resolvable one, never looked at.
C18_Witness ==
    /\ args.command = "compare-commits"
    /\ args.baseline = RefBogus
    /\ args.current = RefMain
    /\ pc = "done"
    /\ outcome = "CalledProcessError"
    /\ Len(calls) = 2
    /\ calls[2].arg = RefBogus

\* The session ended in the failed call of git worktree add.
AddFailed ==
    /\ pc = "done"
    /\ outcome = "CalledProcessError"
    /\ calls # <<>>
    /\ calls[Len(calls)].cmd = "git worktree add --detach"

\* C19: a failed git worktree add ends the session there, without a retry: the
\* add is called once per request (never twice for one path in a session), no
\* build or run call for that worktree follows the failed add, no table is
\* compared or printed, and the ended session takes no further step.
C19_FailedMaterializationIsFatal ==
    /\ [][pc = "add_worktree" =>
            \/ pc' = "conan_check" /\ outcome' = "running" /\ project_root \in fs_dirs'
            \/ pc' = "done" /\ outcome' = "CalledProcessError"]_vars
    /\ [][pc = "done" => pc' = "done"]_vars
    /\ [](\A r \in Refs : Cardinality(AddCallsFor(PathOfKey(ShortOfRef(r)))) <= 1)
    /\ [](\A i \in 1..Len(calls) :
            calls[i].cmd = "git worktree add --detach" =>
               \E r \in Refs : calls[i].arg = PathOfKey(ShortOfRef(r)))
    /\ [](AddFailed =>
            /\ BuildCallsIn(calls[Len(calls)].arg) = {}
            /\ comparison = <<>>
            /\ stdout = <<>>)

\* The first commit was built and loaded; adding the worktree of the second
\* failed and left a directory behind, and the session ended without a build
\* in it.
C19_Witness ==
    /\ AddFailed
    /\ SecondRequest
    /\ baseline # <<>>
    /\ project_root \in fs_dirs
    /\ BuildCallsIn(project_root) = {}
    /\ Cardinality(AddCallsFor(project_root)) = 1

\* The directory of a worktree is on disk without the checkout: what a failed
\* git worktree add left of a commit that contains conan/conan_install.py.
IsPartial(w) ==
    /\ w \in fs_dirs
    /\ CheckoutHasConanInstall(w[Len(w)])
    /\ w \o ConanInstallPath \notin DOMAIN fs_files

\* C20: a later request whose worktree directory is a partial one proceeds as a
\* request whose worktree is absent does, to git worktree add; and no step turns
\* a partial worktree into a complete one.
C20_PartialTreatedAsAbsent ==
    /\ [][(pc = "check_worktree" /\ IsPartial(project_root)) => pc' = "add_worktree"]_vars
    /\ [][\A r \in Refs \ {RefBogus} :
            IsPartial(PathOfKey(ShortOfRef(r))) => IsPartial(PathOfKey(ShortOfRef(r)))']_vars

\* ------------------------------------------------------------------ claims: sessions

CommitsSession == args.command = "compare-commits"

\* The positions of the calls of the given command in the session's calls.
CallsOf(cmd) == {i \in 1..Len(calls) : calls[i].cmd = cmd}

\* The calls made for one commit once its worktree is ready: the four build and
\* run calls, in its worktree.
BuiltIn(w, from) ==
    \E i \in from..(Len(calls) - 3) :
       \A k \in 0..3 : calls[i + k].cmd \in BuildCmds /\ calls[i + k].cwd = w

\* The position of the session's first run of the benchmark target: the last
\* call made for the first commit.
FirstRun ==
    CHOOSE i \in CallsOf("cmake --build --target run-benchmark") :
       \A j \in CallsOf("cmake --build --target run-benchmark") : i <= j

\* C21: compare-commits processes the baseline commit first and completely: while
\* the baseline is processed every call is for the baseline and no table is
\* loaded; the step that loads the baseline table is the one that starts the
\* current commit, after the baseline's resolve, worktree and four build calls;
\* and compare_results and the printing run only after both tables are loaded.
C21_BaselineFirstThenCurrent ==
    /\ []((CommitsSession /\ phase = "baseline") =>
            /\ baseline = <<>> /\ current = <<>>
            /\ comparison = <<>> /\ stdout = <<>>
            /\ Cardinality(CallsOf("git rev-parse --short")) <= 1
            /\ \A i \in 1..Len(calls) :
                  /\ calls[i].cmd = "git rev-parse --short" => calls[i].arg = args.baseline
                  /\ calls[i].cmd = "git worktree add --detach"
                        => calls[i].arg = PathOfKey(ShortOfRef(args.baseline))
                  /\ calls[i].cmd \in BuildCmds
                        => calls[i].cwd = PathOfKey(ShortOfRef(args.baseline)))
    /\ [][(CommitsSession /\ phase = "baseline" /\ phase' # "baseline") =>
            /\ pc = "load_results"
            /\ phase' = "current"
            /\ baseline' # <<>>
            /\ opened' # <<>>
            /\ calls' = calls
            /\ BuiltIn(PathOfKey(ShortOfRef(args.baseline)), 3)]_vars
    /\ []((CommitsSession /\ phase = "current") =>
            /\ baseline # <<>>
            /\ CallsOf("cmake --build --target run-benchmark") # {}
            /\ \A i \in 1..Len(calls) :
                  IF i <= FirstRun
                  THEN /\ calls[i].cmd = "git rev-parse --short" => calls[i].arg = args.baseline
                       /\ calls[i].cmd \in BuildCmds
                             => calls[i].cwd = PathOfKey(ShortOfRef(args.baseline))
                  ELSE /\ calls[i].cmd = "git rev-parse --short" => calls[i].arg = args.current
                       /\ calls[i].cmd = "git worktree add --detach"
                             => calls[i].arg = PathOfKey(ShortOfRef(args.current))
                       /\ calls[i].cmd \in BuildCmds
                             => calls[i].cwd = PathOfKey(ShortOfRef(args.current)))
    /\ []((CommitsSession /\ (pc \in {"compare", "print"} \/ comparison # <<>> \/ stdout # <<>>)) =>
            /\ phase = "current"
            /\ baseline # <<>>
            /\ current # <<>>
            /\ Cardinality(CallsOf("git rev-parse --short")) = 2)

\* Two commits without worktrees: each was resolved, added, built and loaded in
\* turn, and the table is about to be printed.
C21_Witness ==
    /\ CommitsSession
    /\ pc = "print"
    /\ args.baseline = RefDev
    /\ args.current = RefMain
    /\ Len(calls) = 14
    /\ calls[3].arg = PathOfKey(<<98, 50>>)
    /\ calls[10].arg = PathOfKey(<<97, 49>>)
    /\ comparison # <<>>

\* The session ended with a non-zero exit code: a SystemExit with a message or
\* an uncaught exception.
Aborted == outcome \notin {"running", "ok"}

\* C22: a failed external call and every fatal condition of loading, comparing
\* or printing end the session at once with a non-zero exit code: the ended
\* session takes no further step, nothing of a table is on the output of a
\* session that ended so, and output exists only in sessions that end with 0.
C22_FailuresAbortWithoutTable ==
    /\ [][pc # "done"]_vars
    /\ [][(outcome = "running" /\ outcome' # "running") => pc' = "done"]_vars
    /\ [](Aborted => (pc = "done" /\ stdout = <<>>))
    /\ [](stdout # <<>> => (pc = "done" /\ outcome = "ok"))

\* ------------------------------------------------------------------ claims: concurrent invocations

\* The short id of the commit invocation p works on.
KeyOf(p) == ShortOfRef(args[p].baseline)

\* The positions of the git worktree add calls of invocation p.
AddCallsBy(p) ==
    {i \in 1..Len(calls) : calls[i].proc = p /\ calls[i].cmd = "git worktree add --detach"}

\* C23: two invocations at once are not serialized: both may find the worktree
\* directory of one key absent and both call git worktree add for it (the state
\* of the witness); what holds in every interleaving is that two add calls for
\* one path come from invocations with the same key, that invocations with
\* different keys have different worktree directories, neither inside the
\* other, and that a step of an invocation creates or rewrites paths below the
\* worktrees root only inside its own worktree directory.
C23_RaceOnlyOnTheSameKey ==
    /\ [](\A p, q \in Procs :
            (p # q /\ KeyOf(p) # KeyOf(q) /\ project_root[p] # <<>> /\ project_root[q] # <<>>)
               => /\ project_root[p] # project_root[q]
                  /\ ~IsUnder(project_root[p], project_root[q])
                  /\ ~IsUnder(project_root[q], project_root[p]))
    /\ [](\A p, q \in Procs : \A i \in AddCallsBy(p) : \A j \in AddCallsBy(q) :
            (p # q /\ calls[i].arg = calls[j].arg) => KeyOf(p) = KeyOf(q))
    /\ [][\A p \in Procs :
            pc'[p] # pc[p] =>
               \A path \in Written :
                  IsUnder(path, WorktreesRoot) =>
                     /\ KeyOf(p) # <<>>
                     /\ InWorkspace(path, WorktreesRoot \o <<KeyOf(p)>>)]_vars

\* Invocations for "main" and for "v1", one commit: each found the directory
\* absent before the other had added it, and each then called git worktree add
\* for the same path.
C23_Witness ==
    /\ DOMAIN pc = Procs
    /\ args[1].baseline = RefMain
    /\ args[2].baseline = RefV1
    /\ project_root[1] = project_root[2]
    /\ Cardinality(AddCallsBy(1)) = 1
    /\ Cardinality(AddCallsBy(2)) = 1
    /\ \A i \in AddCallsBy(1) : \A j \in AddCallsBy(2) : calls[i].arg = calls[j].arg

\* ------------------------------------------------------------------ claims: table cells

\* print_comparison_table has printed its rows (and returned, or raised after).
RowsPrinted == pc = "done" /\ stdout # <<>>

\* The cell shows x as a number with `digits` decimals, rounded to nearest.
ShowsNumber(cell, x, digits) ==
    /\ cell.text = "num"
    /\ cell.digits = digits
    /\ LET unit == IF digits = 2 THEN 100 ELSE 1000
       IN  /\ 2 * (cell.scaled * x[2] - x[1] * unit) <= x[2]
           /\ 2 * (x[1] * unit - cell.scaled * x[2]) <= x[2]

\* The cell shows value as the claim has it: the marker "inf" exactly for +inf,
\* a number exactly for a finite value, and for -inf and nan the float's own
\* text, which is no number either.
ShowsValue(cell, value, digits) ==
    /\ cell.text = "inf" <=> value = PosInf
    /\ IsFinite(value) => ShowsNumber(cell, value, digits)
    /\ ~IsFinite(value) => cell.text \in {"inf", "-inf", "nan", "+nan"}
    /\ cell.text = "-inf" <=> value = NegInf
    /\ cell.text \in {"nan", "+nan"} <=> IsNaN(value)

\* C24: the printed table has one row per comparison row, in order, and in each
\* the speedup cell and the percent cell read "inf" exactly when the row's value
\* is +inf and show the value as a number with 3 resp. 2 decimals exactly when
\* it is finite: an infinite value is never shown as a number, nor a finite one
\* as "inf".
C24_InfMarker ==
    RowsPrinted =>
        /\ Len(RowLines) = Len(comparison)
        /\ \A i \in 1..Len(RowLines) :
              /\ RowLines[i].name = comparison[i][1]
              /\ ShowsValue(RowLines[i].cells[3], comparison[i][2][3], 3)
              /\ ShowsValue(RowLines[i].cells[4], comparison[i][2][4], 2)

\* A table of two rows: one with current = 0, its speedup printed as "inf", and
\* one with baseline = 0, its percent printed as "inf" beside a numeric speedup.
C24_Witness ==
    /\ Printed
    /\ Len(RowLines) = 2
    /\ comparison[1][2][2] = Zero /\ comparison[1][2][1] = Fin(1)
    /\ RowLines[1].cells[3].text = "inf" /\ RowLines[1].cells[4].text = "num"
    /\ comparison[2][2][1] = Zero /\ comparison[2][2][2] = Fin(2)
    /\ RowLines[2].cells[3].text = "num" /\ RowLines[2].cells[4].text = "inf"

\* ------------------------------------------------------------------ claims: run_benchmarks

\* The build and run calls made in the tree w, in the order of the session.
BuildSeqIn(w) ==
    LET s == SelectSeq(calls, LAMBDA c : c.cmd \in BuildCmds)
    IN  SelectSeq(s, LAMBDA c : c.cwd = w)

\* The order of the steps of one run_benchmarks, repeated by a second run in the
\* same tree.
StepOrder ==
    <<"conan_install.py benchmark", "cmake --preset benchmark",
      "cmake --build --preset benchmark", "cmake --build --target run-benchmark">>

\* C25: in every tree the external steps of run_benchmarks are called in the
\* order conan install, cmake configure, cmake build, run target, a step only
\* after the one before it succeeded (a failed step is the session's last call);
\* and with conan/conan_install.py missing under the project root run_benchmarks
\* fails without calling any of them.
C25_StepsInOrder ==
    /\ [](\A w \in {RepoRoot} \cup {PathOfKey(ShortOfRef(r)) : r \in Refs \ {RefBogus}} :
            \A i \in 1..Len(BuildSeqIn(w)) :
               BuildSeqIn(w)[i].cmd = StepOrder[((i - 1) % 4) + 1])
    /\ [][\A k \in 1..4 :
            (calls' # calls /\ calls'[Len(calls')].cmd = StepOrder[k]) =>
               /\ outcome = "running"
               /\ pc = <<"conan_install", "cmake_configure", "cmake_build", "run_target">>[k]
               /\ calls'[Len(calls')].cwd = project_root
               /\ project_root \o ConanInstallPath \in DOMAIN fs_files
               /\ k > 1 => (calls # <<>> /\ calls[Len(calls)].cmd = StepOrder[k - 1]
                              /\ calls[Len(calls)].cwd = project_root)]_vars
    /\ [][(pc = "conan_check" /\ project_root \o ConanInstallPath \notin DOMAIN fs_files) =>
            /\ pc' = "done"
            /\ outcome' = "ConanInstallNotFound"
            /\ calls' = calls
            /\ fs_files' = fs_files /\ fs_dirs' = fs_dirs]_vars
    /\ [](outcome = "ConanInstallNotFound" => BuildSeqIn(project_root) = <<>>)

\* The run command in the primary checkout made its four calls and ended well.
C25_Witness ==
    /\ args.command = "run"
    /\ pc = "done"
    /\ outcome = "ok"
    /\ [i \in 1..Len(calls) |-> calls[i].cmd]
          = <<"git rev-parse --show-toplevel">> \o StepOrder
    /\ \A i \in 2..5 : calls[i].cwd = RepoRoot

\* ------------------------------------------------------------------ claims: single files

\* compare-json is about to load the location, which is a file that the loader
\* reads to an empty table.
EmptyFileAt(path) ==
    /\ args.command = "compare-json"
    /\ path \in DOMAIN fs_files
    /\ TableOf(path) = Loaded(<<>>)

\* C26: in compare-json a location that is one file and loads to an empty table
\* passes the loading step (EmptyResultSet is raised for directories only) and
\* the session goes on; once both locations are loaded, an empty table ends the
\* session in compare_results with NoCommonBenchmarks and nothing is printed.
C26_EmptySingleFile ==
    /\ [][(pc = "load_baseline" /\ EmptyFileAt(args.baseline)) =>
            /\ pc' = "load_current"
            /\ outcome' = "running"
            /\ baseline' = <<>>]_vars
    /\ [][(pc = "load_current" /\ EmptyFileAt(args.current)) =>
            /\ pc' = "compare"
            /\ outcome' = "running"
            /\ current' = <<>>]_vars
    /\ [][(pc = "compare" /\ args.command = "compare-json"
             /\ (baseline = <<>> \/ current = <<>>)) =>
            /\ pc' = "done"
            /\ outcome' = "NoCommonBenchmarks"
            /\ comparison' = <<>>
            /\ stdout' = <<>>]_vars
    /\ []((args.command = "compare-json" /\ outcome = "EmptyResultSet") =>
            \/ args.baseline \in fs_dirs /\ baseline = <<>>
            \/ args.current \in fs_dirs /\ current = <<>>)

\* The baseline was given as a file holding an empty list, the current location
\* loaded to a table, and the session ended in compare_results.
C26_Witness ==
    /\ args.command = "compare-json"
    /\ args.baseline = BaseDir \o <<ResultFileName>>
    /\ args.baseline \in DOMAIN fs_files
    /\ fs_files[args.baseline] = EmptyListDoc
    /\ baseline = <<>>
    /\ current # <<>>
    /\ pc = "done"
    /\ outcome = "NoCommonBenchmarks"
    /\ stdout = <<>>

\* ------------------------------------------------------------------ claims: one commit twice

\* compare-commits was given two refs that git resolves to the same short id.
SameKey ==
    /\ CommitsSession
    /\ ShortOfRef(args.baseline) # <<>>
    /\ ShortOfRef(args.baseline) = ShortOfRef(args.current)

\* The worktree of the baseline commit and its results directory.
BaselineWorktree == PathOfKey(ShortOfRef(args.baseline))

\* C27: when both refs of compare-commits have the same short id, git worktree
\* add is called at most once in the session; the second commit still runs the
\* four build and run calls, in the worktree of the first, so that once the
\* current table is loaded eight such calls were made there and none elsewhere;
\* and both tables are loaded from <worktree>/build/benchmark.
C27_SameKeyBuildsTwiceInOneWorktree ==
    /\ [](SameKey =>
            /\ Cardinality(CallsOf("git worktree add --detach")) <= 1
            /\ \A i \in 1..Len(calls) :
                  calls[i].cmd \in BuildCmds => calls[i].cwd = BaselineWorktree
            /\ \A i \in 1..Len(opened) :
                  IsUnder(opened[i], BaselineWorktree \o BUILD_SUBDIR))
    /\ []((SameKey /\ (pc \in {"compare", "print"} \/ current # <<>>)) =>
            /\ Cardinality(BuildCallsIn(BaselineWorktree)) = 8
            /\ \A i \in 1..Len(BuildSeqIn(BaselineWorktree)) :
                  BuildSeqIn(BaselineWorktree)[i].cmd = (StepOrder \o StepOrder)[i]
            /\ baseline # <<>>)
    /\ [][(SameKey /\ pc = "load_results") =>
            opened' = opened \o JsonPaths(BaselineWorktree \o BUILD_SUBDIR)]_vars

\* "main" and "v1" are the commit a1, which had no worktree: it was added once,
\* built and run twice, and both tables are loaded.
C27_Witness ==
    /\ SameKey
    /\ args.baseline = RefMain
    /\ args.current = RefV1
    /\ pc = "print"
    /\ Cardinality(CallsOf("git worktree add --detach")) = 1
    /\ Cardinality(BuildCallsIn(BaselineWorktree)) = 8
    /\ baseline # <<>>
    /\ current # <<>>

\* ------------------------------------------------------------------ claims: primary results

\* The result files of the primary checkout itself: those below
\* <repo>/build/benchmark that are not inside a worktree.
OwnResultFiles == {p \in RGlob(PrimaryResults) : ~IsUnder(p, WorktreesRoot)}

\* C28: the table aggregated for the results directory of the primary checkout
\* holds only measurements of the primary checkout's own result files: no file
\* inside <repo>/build/benchmark/benchmark_worktrees is opened for it, and the
\* table is the merge of the own files alone.
C28_PrimaryTableFromOwnFiles ==
    (pc = "load_current" /\ args.baseline = PrimaryResults) =>
       /\ \A i \in 1..Len(opened) : ~IsUnder(opened[i], WorktreesRoot)
       /\ baseline = MergeFiles(SortedPaths(OwnResultFiles), args.time_key, <<>>, <<>>).table

\* ------------------------------------------------------------------ claims: both keys

\* The root of the result file is a mapping with both keys.
BothKeys ==
    /\ FileDoc.root = "dict"
    /\ FileDoc.benchmark.present
    /\ FileDoc.benchmarks.present

\* C29: when the root has both "benchmark" and "benchmarks", the outcome of the
\* load is decided by the value of "benchmark" alone: its entries make the table
\* (or raise), and a change of "benchmarks" changes nothing; and when several
\* entries of the chosen list carry a name with the requested field, the table
\* has the value of the last of them.
C29_BenchmarkKeyFirstLastEntryWins ==
    /\ (pc # "load_baseline" /\ BothKeys) =>
          IF FileDoc.benchmark.kind # "list"
          THEN outcome = "TypeError" /\ baseline = <<>>
          ELSE LET r == LoadEntries(FileDoc.benchmark.items, args.time_key, <<>>)
               IN  IF r.status = "ok"
                   THEN FileLoaded /\ baseline = r.table
                   ELSE outcome = r.status /\ baseline = <<>>
    /\ (FileLoaded /\ HasEntryList) =>
          \A i \in 1..Len(FileEntries) : \A j \in (i + 1)..Len(FileEntries) :
             (/\ HasBoth(FileEntries[i])
              /\ HasBoth(FileEntries[j])
              /\ FileEntries[i].name.value = FileEntries[j].name.value
              /\ \A k \in (j + 1)..Len(FileEntries) :
                    ~(HasBoth(FileEntries[k])
                      /\ FileEntries[k].name.value = FileEntries[j].name.value))
             => Get(baseline, FileEntries[j].name.value) = Requested(FileEntries[j]).value

\* Both keys present: "benchmark" lists a twice, with 1 and then 2, "benchmarks"
\* lists b; the table is {a: 2}.
C29_Witness ==
    /\ FileLoaded
    /\ args.time_key = "real_time"
    /\ BothKeys
    /\ FileDoc.benchmark =
          ListOf(<<Entry(Name(A), Time(Fin(1)), Time(Fin(2))), Entry(Name(A), Time(Fin(2)), NoField)>>)
    /\ FileDoc.benchmarks = ListOf(<<Entry(Name(B), Time(Fin(2)), NoField)>>)
    /\ baseline = << <<A, Fin(2)>> >>

\* ------------------------------------------------------------------ claims: release script

\* The positions of the conan create calls, and the build profiles they were
\* made for, in the order of the calls.
CreateCalls == {i \in 1..Len(calls) : calls[i].cmd = "conan create"}
UploadCalls == {i \in 1..Len(calls) : calls[i].cmd = "conan upload"}
RECURSIVE CreatedFrom(_)
CreatedFrom(i) ==
    IF i > Len(calls) THEN <<>>
    ELSE IF calls[i].cmd = "conan create" THEN <<calls[i].arg.build>> \o CreatedFrom(i + 1)
    ELSE CreatedFrom(i + 1)

\* C30: the release script runs conan upload only as the call after a conan
\* create that returned zero, once per created profile; conan create is run for
\* the selected build profiles in their order, and a command that fails is the
\* last command of the run; with --disable-upload conan upload is never run;
\* and with upload enabled and no remote the script ends in main() before any
\* conan command.
C30_UploadAfterCreateInOrder ==
    /\ \A i \in UploadCalls :
          /\ i > 1
          /\ calls[i - 1].cmd = "conan create"
          /\ calls[i - 1].rc = 0
          /\ calls[i].arg = args.remote.value
    /\ Cardinality(UploadCalls) <= Cardinality(CreateCalls)
    /\ \A i \in 1..Len(calls) : calls[i].rc # 0 =>
          /\ i = Len(calls)
          /\ pc = "done"
          /\ outcome = "CommandFailed"
    /\ LET created == CreatedFrom(1)
       IN  /\ Len(created) <= Len(SelectedBuildProfiles)
           /\ \A k \in 1..Len(created) : created[k] = SelectedBuildProfiles[k]
    /\ outcome = "ok" =>
          /\ CreatedFrom(1) = SelectedBuildProfiles
          /\ Cardinality(UploadCalls) = IF DoUpload THEN Len(SelectedBuildProfiles) ELSE 0
    /\ args.disable_upload => UploadCalls = {}
    /\ (DoUpload /\ (~args.remote.given \/ args.remote.value = <<>>)) =>
          /\ calls = <<>>
          /\ pc \in {"main", "done"}
          /\ pc = "done" => outcome = "RemoteRequired"

\* -p gr -p gd with the remote r: gr was created and uploaded, then gd, and the
\* script ended with exit code 0.
C30_Witness ==
    /\ args.command = "release"
    /\ args.profiles = Given(<<GccRelease, GccDebug>>)
    /\ args.remote = Given(RemoteR)
    /\ DoUpload
    /\ outcome = "ok"
    /\ CreatedFrom(1) = <<GccRelease, GccDebug>>
    /\ UploadCalls = {4, 6}

====
